---- MODULE Spec2Model ----
(***************************************************************************)
(* chirpy: the JSON-file document store of internal/database (DB) and the  *)
(* handlers of service.go that drive it.  Every goroutine serving a        *)
(* request is a process; a store operation is the sequence of steps the Go *)
(* code takes: mux.Lock / mux.RLock, loadDB, the mutation, writeDB and the *)
(* deferred unlock at return.                                              *)
(***************************************************************************)
EXTENDS Integers, Sequences, FiniteSets, TLC

\* ------------------------------------------------------------------ bounds
NumProcs == 2
MaxID == 2
MaxFaults == 1
MaxNow == 1
MaxPerKind == 1
MaxBoots == 2
MaxWords == 2
MaxHits == 3

Procs == 1..NumProcs
Emails == {"a@x.com", "b@x.com"}
Hashes == {"d1", "d2"}
Tokens == {"t1", "t2"}
Bodies == {"c", "a"}
TTLs == {0, 1}
UserIDs == 1..2

VARIABLES
  data,     \* DB.data: the in-memory DBRepresentation
  file,     \* the file at DB.path
  writer,   \* DB.mux: the goroutine that holds or has announced Lock(), 0 if none
  readers,  \* DB.mux: the goroutines holding RLock()
  pc,       \* per goroutine: its position in the operation it runs
  op,       \* per goroutine: the operation it runs and its arguments
  local,    \* per goroutine: the locals of the operation (newUser, rt, ...)
  cs,       \* history: the snapshot and file when the write lock was acquired,
            \* and the snapshot as the reload left it
  now,      \* time.Now().UTC(), in seconds
  faults,   \* number of I/O failures so far
  hist,     \* history: what the operations returned
  metrics   \* fileserverHits and the mutex that guards it

vars == <<data, file, writer, readers, pc, op, local, cs, now, faults, hist,
          metrics>>

\* ------------------------------------------------------------ map helpers
EmptyMap == [x \in {} |-> 0]

Put(m, k, v) == [x \in (DOMAIN m) \cup {k} |-> IF x = k THEN v ELSE m[x]]

Delete(m, k) == [x \in (DOMAIN m) \ {k} |-> m[x]]

\* --------------------------------------------------------------- records
ZeroTime == "0001-01-01T00:00:00Z"

ZeroUser == [ID |-> 0, Email |-> "", ChirpyRed |-> FALSE]

ZeroAuthUser == [ID |-> 0, Email |-> "", ChirpyRed |-> FALSE, Password |-> ""]

ZeroChirp == [ID |-> 0, AuthorID |-> 0, Body |-> ""]

ZeroRefreshToken == [Token |-> "", UserID |-> 0, Expiration |-> ZeroTime]

ErrDoesNotExist == "does not exist"

ErrAlreadyExists == "already exists"

\* the *PathError of os.ReadFile / os.WriteFile and the decoder's io.EOF
ErrIO == "io error"

Nil == "nil"

EmptyData ==
  [LastChirpID |-> 0, LastUserID |-> 0, Chirps |-> EmptyMap, Users |-> EmptyMap,
   UserEmailIndex |-> EmptyMap, RefreshTokens |-> EmptyMap]

\* the User embedded in an AuthUser
UserOf(au) == [ID |-> au.ID, Email |-> au.Email, ChirpyRed |-> au.ChirpyRed]

\* ----------------------------------------------------------------- codec
\* strconv.Itoa / strconv.ParseInt: json encodes the int keys of a map as strings
Itoa(n) == ToString(n)

MaxKey == 8

Atoi(s) == CHOOSE n \in 0..MaxKey : ToString(n) = s

\* a []byte is encoded as a base64 string, a time.Time as an RFC 3339 string
Base64(b) == <<"base64", b>>

UnBase64(s) == s[2]

RFC3339(t) == <<"rfc3339", t>>

ParseRFC3339(s) == s[2]

\* MarshalWithoutPassword is Marshal with the Password of AuthUser left out
\* of the encoding
MarshalWithoutPassword(d) ==
  [last_chirp_id |-> d.LastChirpID,
   last_user_id |-> d.LastUserID,
   chirps |-> [k \in {Itoa(i) : i \in DOMAIN d.Chirps} |->
                 LET c == d.Chirps[Atoi(k)]
                 IN [id |-> c.ID, author_id |-> c.AuthorID, body |-> c.Body]],
   users |-> [k \in {Itoa(i) : i \in DOMAIN d.Users} |->
                LET u == d.Users[Atoi(k)]
                IN [id |-> u.ID, email |-> u.Email, is_chirpy_red |-> u.ChirpyRed,
                    password |-> Base64("")]],
   user_email_idx |-> d.UserEmailIndex,
   refresh_tokens |-> [t \in DOMAIN d.RefreshTokens |->
                         LET r == d.RefreshTokens[t]
                         IN [Token |-> r.Token, UserID |-> r.UserID,
                             Expiration |-> RFC3339(r.Expiration)]]]

\* json.Marshal(db.data)
Marshal(d) ==
  [last_chirp_id |-> d.LastChirpID,
   last_user_id |-> d.LastUserID,
   chirps |-> [k \in {Itoa(i) : i \in DOMAIN d.Chirps} |->
                 LET c == d.Chirps[Atoi(k)]
                 IN [id |-> c.ID, author_id |-> c.AuthorID, body |-> c.Body]],
   users |-> [k \in {Itoa(i) : i \in DOMAIN d.Users} |->
                LET u == d.Users[Atoi(k)]
                IN [id |-> u.ID, email |-> u.Email, is_chirpy_red |-> u.ChirpyRed,
                    password |-> Base64(u.Password)]],
   user_email_idx |-> d.UserEmailIndex,
   refresh_tokens |-> [t \in DOMAIN d.RefreshTokens |->
                         LET r == d.RefreshTokens[t]
                         IN [Token |-> r.Token, UserID |-> r.UserID,
                             Expiration |-> RFC3339(r.Expiration)]]]

DecodeChirp(c) == [ID |-> c.id, AuthorID |-> c.author_id, Body |-> c.body]

\* DecodeAuthUserPlain is DecodeAuthUser without the is_chirpy_red key
DecodeAuthUserPlain(u) ==
  [ID |-> u.id, Email |-> u.email, ChirpyRed |-> FALSE,
   Password |-> UnBase64(u.password)]

DecodeAuthUser(u) ==
  [ID |-> u.id, Email |-> u.email, ChirpyRed |-> u.is_chirpy_red,
   Password |-> UnBase64(u.password)]

DecodeRefreshToken(r) ==
  [Token |-> r.Token, UserID |-> r.UserID, Expiration |-> ParseRFC3339(r.Expiration)]

\* decoder.Decode(&db.data): the two counters are overwritten; a JSON object
\* decoded into a non-nil Go map keeps the map's entries and stores the
\* object's key/value pairs into it
Decode(doc, d) ==
  [LastChirpID |-> doc.last_chirp_id,
   LastUserID |-> doc.last_user_id,
   Chirps |-> [i \in (DOMAIN d.Chirps) \cup {Atoi(k) : k \in DOMAIN doc.chirps} |->
                 IF Itoa(i) \in DOMAIN doc.chirps
                 THEN DecodeChirp(doc.chirps[Itoa(i)]) ELSE d.Chirps[i]],
   Users |-> [i \in (DOMAIN d.Users) \cup {Atoi(k) : k \in DOMAIN doc.users} |->
                IF Itoa(i) \in DOMAIN doc.users
                THEN DecodeAuthUser(doc.users[Itoa(i)]) ELSE d.Users[i]],
   UserEmailIndex |->
     [e \in (DOMAIN d.UserEmailIndex) \cup (DOMAIN doc.user_email_idx) |->
        IF e \in DOMAIN doc.user_email_idx
        THEN doc.user_email_idx[e] ELSE d.UserEmailIndex[e]],
   RefreshTokens |->
     [t \in (DOMAIN d.RefreshTokens) \cup (DOMAIN doc.refresh_tokens) |->
        IF t \in DOMAIN doc.refresh_tokens
        THEN DecodeRefreshToken(doc.refresh_tokens[t]) ELSE d.RefreshTokens[t]]]

\* the file: its JSON document, or what a failed os.WriteFile left of it
FileOf(d) == [state |-> "ok", doc |-> Marshal(d)]

Truncated == [state |-> "truncated", doc |-> Marshal(EmptyData)]

\* no file at DB.path: os.ReadFile fails with an error for which
\* os.IsNotExist holds
Missing == [state |-> "missing", doc |-> Marshal(EmptyData)]

\* ------------------------------------------------------------ operations
\* name: the DB method called; handler: the service.go handler calling it
NoOp ==
  [name |-> "none", handler |-> "", email |-> "", pwHash |-> "", userID |-> 0,
   token |-> "", ttl |-> 0, body |-> "", chirpID |-> 0]

Ret(err, val) == [err |-> err, val |-> val]

NoRet == Ret("none", 0)

NoCS == [held |-> FALSE, data |-> EmptyData, file |-> Truncated, loaded |-> EmptyData]

\* the token whose history is kept; the other tokens are only interference
Tracked == "t1"

\* what the calls returned so far, kept beside the program's state: the IDs
\* the successful creates returned and, of the token Tracked,
\* last, rt: the last issue or revoke that returned success, and the record
\*   that issue returned;
\* torn: an issue or revoke changed the snapshot and failed to persist it
\*   since;
\* rev: a revoke has removed the token ("executed"), then a validate answered
\*   not-found ("seen"), no issue having returned success since;
\* revOK: the same for a revoke that returned success, no issue having stored
\*   the token since;
\* expired: a validate answered expired, no revoke having removed the token
\*   since
NoTok ==
  [last |-> "none", rt |-> ZeroRefreshToken, torn |-> FALSE, rev |-> "no",
   revOK |-> "no", expired |-> FALSE]

\* per validate of Tracked: whether an issue or revoke of it returned between
\* the lookup and the expiry check (stale); then, for the answer, the clock
\* of the expiry check (at) and the token's history at that moment (tok)
NoSeen == [stale |-> FALSE, at |-> 0, tok |-> NoTok]

\* the last call of NewDB: how many there were, its truncate argument, the
\* error it returned and the snapshot of the store it returned
NoBoot == [n |-> 0, truncate |-> FALSE, err |-> "none", data |-> EmptyData]

\* the create-user requests so far: the emails they carried, how many were
\* answered 201, whether one was turned away (409 after UserExists, or
\* ErrAlreadyExists from CreateUser) and whether one met an I/O error
NoSignup == [emails |-> {}, created |-> 0, rejected |-> FALSE, failed |-> FALSE]

\* dirty: a writeDB of the running store has failed and none has succeeded
\* since
NoHist ==
  [chirpIDs |-> <<>>, userIDs |-> <<>>, tok |-> NoTok,
   seen |-> [p \in Procs |-> NoSeen], boot |-> NoBoot, dirty |-> FALSE,
   signup |-> NoSignup]

\* chirpyService.fileserverHits and chirpyService.metricsMux as the constructor
\* leaves them; counted is the number of increments stored since the last
\* reset and held the values fileserverHits has had (history)
NoMetrics ==
  [fileserverHits |-> 0, writer |-> 0, readers |-> {}, counted |-> 0,
   held |-> {0}]

\* the positions of a mutating operation from its reload to its persist
Section == {"load", "apply", "apply2", "write"}

\* the zero value a method returns beside an error
ZeroOf(name) ==
  CASE name \in {"CreateUser", "UpdateUser"} -> ZeroUser
    [] name \in {"CreateChirp", "Create"} -> ZeroChirp
    [] name = "CreateRefreshToken" -> ZeroRefreshToken
    [] OTHER -> Nil

Init ==
  /\ data = EmptyData
  /\ file = FileOf(EmptyData)
  /\ writer = 0
  /\ readers = {}
  /\ pc = [p \in Procs |-> "idle"]
  /\ op = [p \in Procs |-> NoOp]
  /\ local = [p \in Procs |-> NoRet]
  /\ cs = NoCS
  /\ now = 0
  /\ faults = 0
  /\ hist = NoHist
  /\ metrics = NoMetrics

\* ------------------------------------------------------------- DB.mux
\* db.mux.Lock() at the top of method name, called from handler h (or from any
\* caller): take the writer mutex and announce the writer, which stops new
\* readers.  A goroutine blocked in Lock() has done nothing yet: it is idle.
\* LockNoExclusion is Lock without the mutex: it never blocks
LockNoExclusion(p, h, name) ==
  /\ pc[p] = "idle"
  /\ writer' = p
  /\ op' = [op EXCEPT ![p] = [NoOp EXCEPT !.handler = h, !.name = name]]
  /\ pc' = [pc EXCEPT ![p] = "drain"]
  /\ UNCHANGED <<data, file, readers, local, cs, now, metrics, faults, hist>>

Lock(p, h, name) ==
  /\ pc[p] = "idle"
  /\ writer = 0
  /\ writer' = p
  /\ op' = [op EXCEPT ![p] = [NoOp EXCEPT !.handler = h, !.name = name]]
  /\ pc' = [pc EXCEPT ![p] = "drain"]
  /\ UNCHANGED <<data, file, readers, local, cs, now, metrics, faults, hist>>

\* db.mux.Lock() returns once the active readers have left
Locked(p) ==
  /\ pc[p] = "drain"
  /\ readers = {}
  /\ pc' = [pc EXCEPT ![p] = "load"]
  /\ cs' = [held |-> TRUE, data |-> data, file |-> file, loaded |-> data]
  /\ UNCHANGED <<data, file, writer, readers, op, local, now, metrics, faults, hist>>

\* the entry of Tracked in snapshot d
Entry(d) ==
  IF Tracked \in DOMAIN d.RefreshTokens THEN d.RefreshTokens[Tracked]
  ELSE ZeroRefreshToken

\* the validates of Tracked between lookup and expiry check are marked: what
\* they looked up is no longer the token's state
Stale(seen) ==
  [q \in Procs |->
     IF pc[q] = "handler" /\ op[q].token = Tracked
     THEN [seen[q] EXCEPT !.stale = TRUE] ELSE seen[q]]

\* what the method of p adds to the history of Tracked when it returns r
RecordToken(p, r) ==
  CASE op[p].name = "CreateRefreshToken" /\ op[p].token = Tracked /\ r.err = Nil ->
         [hist.tok EXCEPT !.last = "issued", !.rt = r.val, !.torn = FALSE,
                          !.rev = "no", !.revOK = "no"]
    [] op[p].name = "CreateRefreshToken" /\ op[p].token = Tracked /\ r.err = ErrIO ->
         [hist.tok EXCEPT !.torn = TRUE, !.revOK = "no"]
    [] op[p].name = "DeleteRefreshToken" /\ op[p].token = Tracked /\ r.err = Nil ->
         [hist.tok EXCEPT !.last = "revoked", !.rt = ZeroRefreshToken,
                          !.torn = FALSE, !.rev = "executed", !.revOK = "done",
                          !.expired = FALSE]
    [] op[p].name = "DeleteRefreshToken" /\ op[p].token = Tracked /\ r.err = ErrIO ->
         [hist.tok EXCEPT !.torn = TRUE, !.rev = "executed", !.expired = FALSE]
    [] OTHER -> hist.tok

\* what createUserHandler adds when its cs.db.CreateUser returns r
RecordSignup(p, r) ==
  IF op[p].handler # "createUserHandler"
  THEN hist.signup
  ELSE IF r.err = Nil
  THEN [hist.signup EXCEPT !.created = @ + 1]
  ELSE IF r.err = ErrAlreadyExists
  THEN [hist.signup EXCEPT !.rejected = TRUE]
  ELSE [hist.signup EXCEPT !.failed = TRUE]

\* what the method of p adds to the history when it returns r
Record(p, r) ==
  [chirpIDs |-> IF op[p].name = "CreateChirp" /\ r.err = Nil
                THEN Append(hist.chirpIDs, r.val.ID) ELSE hist.chirpIDs,
   userIDs |-> IF op[p].name = "CreateUser" /\ r.err = Nil
               THEN Append(hist.userIDs, r.val.ID) ELSE hist.userIDs,
   tok |-> RecordToken(p, r),
   seen |-> IF RecordToken(p, r) # hist.tok \/ Entry(data) # Entry(cs.data)
            THEN Stale(hist.seen) ELSE hist.seen,
   boot |-> hist.boot,
   dirty |-> hist.dirty,
   signup |-> RecordSignup(p, r)]

\* what a validate adds to the history when it answers v
RecordVerdict(p, v) ==
  IF op[p].token # Tracked \/ hist.seen[p].stale
  THEN [hist EXCEPT !.seen[p] = NoSeen]
  ELSE LET h == [hist EXCEPT !.seen[p] = [stale |-> FALSE, at |-> now, tok |-> hist.tok]]
       IN IF v.err = "Invalid token"
          THEN [h EXCEPT !.tok.rev = IF @ = "executed" THEN "seen" ELSE @,
                         !.tok.revOK = IF @ = "done" THEN "seen" ELSE @]
          ELSE IF v.err = "Expired token"
          THEN [h EXCEPT !.tok.expired = TRUE]
          ELSE h

\* defer db.mux.Unlock(): runs as the method returns
Unlock(p) ==
  /\ pc[p] = "unlock"
  /\ writer' = 0
  /\ cs' = NoCS
  /\ hist' = Record(p, local[p])
  /\ pc' = [pc EXCEPT ![p] = "idle"]
  /\ op' = [op EXCEPT ![p] = NoOp]
  /\ local' = [local EXCEPT ![p] = NoRet]
  /\ UNCHANGED <<data, file, readers, now, metrics, faults>>

\* RLockExclusive is RLock on a plain mutex: it blocks while any goroutine
\* holds the lock
RLockExclusive(p, h, name) ==
  /\ pc[p] = "idle"
  /\ writer = 0
  /\ readers = {}
  /\ readers' = readers \cup {p}
  /\ op' = [op EXCEPT ![p] = [NoOp EXCEPT !.handler = h, !.name = name]]
  /\ pc' = [pc EXCEPT ![p] = "read"]
  /\ UNCHANGED <<data, file, writer, local, cs, now, metrics, faults, hist>>

\* db.mux.RLock() at the top of method name: blocks while a writer holds or
\* has announced the lock
RLock(p, h, name) ==
  /\ pc[p] = "idle"
  /\ writer = 0
  /\ readers' = readers \cup {p}
  /\ op' = [op EXCEPT ![p] = [NoOp EXCEPT !.handler = h, !.name = name]]
  /\ pc' = [pc EXCEPT ![p] = "read"]
  /\ UNCHANGED <<data, file, writer, local, cs, now, metrics, faults, hist>>

\* defer db.mux.RUnlock(): runs as the method returns
RUnlock(p) ==
  /\ pc[p] = "runlock"
  /\ readers' = readers \ {p}
  /\ IF op[p].handler = ""
     THEN /\ pc' = [pc EXCEPT ![p] = "idle"]
          /\ op' = [op EXCEPT ![p] = NoOp]
          /\ local' = [local EXCEPT ![p] = NoRet]
     ELSE /\ pc' = [pc EXCEPT ![p] = "handler"]
          /\ UNCHANGED <<op, local>>
  /\ UNCHANGED <<data, file, writer, cs, now, metrics, faults, hist>>

\* the methods that start with db.mux.Lock(); the others start with RLock()
Mutating ==
  {"CreateUser", "UpdateUser", "CreateRefreshToken", "DeleteRefreshToken",
   "CreateChirp"}

\* method name is called and its goroutine reaches db.mux.Lock() or RLock():
\* it may have to wait there
Call(p, name) ==
  /\ pc[p] = "idle"
  /\ op' = [op EXCEPT ![p] = [NoOp EXCEPT !.name = name]]
  /\ pc' = [pc EXCEPT ![p] = "call"]
  /\ UNCHANGED <<data, file, writer, readers, local, cs, now, metrics, faults, hist>>

\* the waiting goroutine gets the lock: Lock() announces the writer when no
\* other writer has, RLock() enters when no writer holds or has announced it
Acquire(p) ==
  /\ pc[p] = "call"
  /\ writer = 0
  /\ IF op[p].name \in Mutating
     THEN /\ writer' = p
          /\ pc' = [pc EXCEPT ![p] = "drain"]
          /\ UNCHANGED readers
     ELSE /\ readers' = readers \cup {p}
          /\ pc' = [pc EXCEPT ![p] = "read"]
          /\ UNCHANGED writer
  /\ UNCHANGED <<data, file, op, local, cs, now, metrics, faults, hist>>

\* ------------------------------------------------------- loadDB, writeDB
\* FailHolding is Fail returning without the deferred Unlock
FailHolding(p) ==
  /\ local' = [local EXCEPT ![p] = NoRet]
  /\ pc' = [pc EXCEPT ![p] = "idle"]

\* the method returns (zero, err) right after a failed loadDB or writeDB
Fail(p) ==
  /\ local' = [local EXCEPT ![p] = Ret(ErrIO, ZeroOf(op[p].name))]
  /\ pc' = [pc EXCEPT ![p] = "unlock"]

\* what the caller does with the error of loadDB: the methods of
\* internal/database return it, Create of db.go calls db.loadDB() as a
\* statement and goes on
LoadError(p) ==
  IF op[p].name = "Create"
  THEN /\ pc' = [pc EXCEPT ![p] = "apply"]
       /\ UNCHANGED local
  ELSE Fail(p)

\* err := db.loadDB(), the first statement under the write lock
loadDB(p) ==
  /\ pc[p] = "load"
  /\ \/ /\ file.state = "ok"
        /\ data' = Decode(file.doc, data)
        /\ cs' = [cs EXCEPT !.loaded = Decode(file.doc, data)]
        /\ pc' = [pc EXCEPT ![p] = "apply"]
        /\ UNCHANGED <<local, faults>>
     \/ /\ file.state # "ok"      \* the decoder fails before it stores anything
        /\ LoadError(p)
        /\ UNCHANGED <<data, cs, faults>>
     \/ /\ faults < MaxFaults     \* os.ReadFile fails
        /\ faults' = faults + 1
        /\ LoadError(p)
        /\ UNCHANGED <<data, cs>>
  /\ UNCHANGED <<file, writer, readers, op, now, metrics, hist>>

\* writeDB reporting success without having written the file
writeDBUnflushed(p) ==
  /\ pc[p] = "write"
  /\ pc' = [pc EXCEPT ![p] = "unlock"]
  /\ hist' = [hist EXCEPT !.dirty = FALSE]
  /\ UNCHANGED <<data, file, writer, readers, op, cs, now, metrics, local, faults>>

\* err = db.writeDB(), the last statement before the return; os.WriteFile
\* fails either at open (file untouched) or after O_TRUNC (file cut short)
writeDB(p) ==
  /\ pc[p] = "write"
  /\ \/ /\ file' = FileOf(data)
        /\ pc' = [pc EXCEPT ![p] = "unlock"]
        /\ hist' = [hist EXCEPT !.dirty = FALSE]
        /\ UNCHANGED <<local, faults>>
     \/ /\ faults < MaxFaults
        /\ faults' = faults + 1
        /\ file' \in {file, Truncated}
        /\ hist' = [hist EXCEPT !.dirty = TRUE]
        /\ Fail(p)
  /\ UNCHANGED <<data, writer, readers, op, cs, now, metrics>>

\* the step of a mutating method between loadDB and writeDB ends in an early
\* return of r, or goes on to writeDB with r to return if that succeeds
Goto(p, where, r) ==
  /\ local' = [local EXCEPT ![p] = r]
  /\ pc' = [pc EXCEPT ![p] = where]

At(p, where, name) == pc[p] = where /\ op[p].name = name

\* the arguments of the call, drawn where the method first reads them
Args(p, o) == op' = [op EXCEPT ![p] = o]

\* -------------------------------------------------------------- users
\* CreateUserOneCounter is CreateUser drawing its IDs from the chirp counter
CreateUserOneCounter(p) ==
  \/ /\ data.LastChirpID < MaxID
     /\ Lock(p, "", "CreateUser")
  \/ /\ At(p, "apply", "CreateUser")
     /\ \E email \in Emails, pwHash \in Hashes :
          /\ Args(p, [op[p] EXCEPT !.email = email, !.pwHash = pwHash])
          /\ IF email \in DOMAIN data.UserEmailIndex
             THEN /\ Goto(p, "unlock", Ret(ErrAlreadyExists, ZeroUser))
                  /\ UNCHANGED data
             ELSE LET newUser == [ID |-> data.LastChirpID + 1, Email |-> email,
                                  ChirpyRed |-> FALSE, Password |-> pwHash]
                  IN /\ data' = [data EXCEPT
                                   !.Users = Put(@, newUser.ID, newUser),
                                   !.UserEmailIndex = Put(@, newUser.Email, newUser.ID),
                                   !.LastChirpID = newUser.ID]
                     /\ Goto(p, "write", Ret(Nil, UserOf(newUser)))
     /\ UNCHANGED <<file, writer, readers, cs, now, metrics, faults, hist>>

\* CreateUserNoCheck is CreateUser without the test of UserEmailIndex
CreateUserNoCheck(p) ==
  \/ /\ data.LastUserID < MaxID
     /\ Lock(p, "", "CreateUser")
  \/ /\ At(p, "apply", "CreateUser")
     /\ \E email \in Emails, pwHash \in Hashes :
          /\ Args(p, [op[p] EXCEPT !.email = email, !.pwHash = pwHash])
          /\ LET newUser == [ID |-> data.LastUserID + 1, Email |-> email,
                             ChirpyRed |-> FALSE, Password |-> pwHash]
             IN /\ data' = [data EXCEPT
                              !.Users = Put(@, newUser.ID, newUser),
                              !.UserEmailIndex = Put(@, newUser.Email, newUser.ID),
                              !.LastUserID = newUser.ID]
                /\ Goto(p, "write", Ret(Nil, UserOf(newUser)))
     /\ UNCHANGED <<file, writer, readers, cs, now, metrics, faults, hist>>

CreateUser(p) ==
  \/ /\ data.LastUserID < MaxID
     /\ Lock(p, "", "CreateUser")
  \/ /\ At(p, "apply", "CreateUser")
     /\ \E email \in Emails, pwHash \in Hashes :
          /\ Args(p, [op[p] EXCEPT !.email = email, !.pwHash = pwHash])
          /\ IF email \in DOMAIN data.UserEmailIndex
             THEN /\ Goto(p, "unlock", Ret(ErrAlreadyExists, ZeroUser))
                  /\ UNCHANGED data
             ELSE LET newUser == [ID |-> data.LastUserID + 1, Email |-> email,
                                  ChirpyRed |-> FALSE, Password |-> pwHash]
                  IN /\ data' = [data EXCEPT
                                   !.Users = Put(@, newUser.ID, newUser),
                                   !.UserEmailIndex = Put(@, newUser.Email, newUser.ID),
                                   !.LastUserID = newUser.ID]
                     /\ Goto(p, "write", Ret(Nil, UserOf(newUser)))
     /\ UNCHANGED <<file, writer, readers, cs, now, metrics, faults, hist>>

\* UpdateUserNoIndex is UpdateUser without the statement that installs the
\* index entry of the new email
UpdateUserNoIndex(p) ==
  \/ Lock(p, "", "UpdateUser")
  \/ /\ At(p, "apply", "UpdateUser")
     /\ \E userID \in UserIDs, email \in Emails, pwHash \in Hashes :
          /\ Args(p, [op[p] EXCEPT !.userID = userID, !.email = email, !.pwHash = pwHash])
          /\ IF userID \notin DOMAIN data.Users
             THEN /\ Goto(p, "unlock", Ret(ErrDoesNotExist, ZeroUser))
                  /\ UNCHANGED data
             ELSE LET user == data.Users[userID]
                  IN /\ data' = [data EXCEPT !.UserEmailIndex = Delete(@, user.Email)]
                     /\ Goto(p, "apply2", Ret(Nil, user))
     /\ UNCHANGED <<file, writer, readers, cs, now, metrics, faults, hist>>
  \/ /\ At(p, "apply2", "UpdateUser")
     /\ LET user == [local[p].val EXCEPT !.Email = op[p].email, !.Password = op[p].pwHash]
        IN /\ data' = [data EXCEPT !.Users = Put(@, op[p].userID, user)]
           /\ Goto(p, "write", Ret(Nil, UserOf(user)))
     /\ UNCHANGED <<file, writer, readers, op, cs, now, metrics, faults, hist>>

\* UpdateUserResetting is UpdateUser storing a new AuthUser built from its
\* arguments instead of the stored one with two fields overwritten
UpdateUserResetting(p) ==
  \/ Lock(p, "", "UpdateUser")
  \/ /\ At(p, "apply", "UpdateUser")
     /\ \E userID \in UserIDs, email \in Emails, pwHash \in Hashes :
          /\ Args(p, [op[p] EXCEPT !.userID = userID, !.email = email, !.pwHash = pwHash])
          /\ IF userID \notin DOMAIN data.Users
             THEN /\ Goto(p, "unlock", Ret(ErrDoesNotExist, ZeroUser))
                  /\ UNCHANGED data
             ELSE LET user == data.Users[userID]
                  IN /\ data' = [data EXCEPT !.UserEmailIndex = Delete(@, user.Email)]
                     /\ Goto(p, "apply2", Ret(Nil, user))
     /\ UNCHANGED <<file, writer, readers, cs, now, metrics, faults, hist>>
  \/ /\ At(p, "apply2", "UpdateUser")
     /\ LET user == [ID |-> op[p].userID, Email |-> op[p].email, ChirpyRed |-> FALSE,
                     Password |-> op[p].pwHash]
        IN /\ data' = [data EXCEPT !.Users = Put(@, op[p].userID, user),
                                   !.UserEmailIndex = Put(@, user.Email, user.ID)]
           /\ Goto(p, "write", Ret(Nil, UserOf(user)))
     /\ UNCHANGED <<file, writer, readers, op, cs, now, metrics, faults, hist>>

UpdateUser(p) ==
  \/ Lock(p, "", "UpdateUser")
  \/ /\ At(p, "apply", "UpdateUser")
     /\ \E userID \in UserIDs, email \in Emails, pwHash \in Hashes :
          /\ Args(p, [op[p] EXCEPT !.userID = userID, !.email = email, !.pwHash = pwHash])
          /\ IF userID \notin DOMAIN data.Users
             THEN /\ Goto(p, "unlock", Ret(ErrDoesNotExist, ZeroUser))
                  /\ UNCHANGED data
             ELSE LET user == data.Users[userID]
                  IN /\ data' = [data EXCEPT !.UserEmailIndex = Delete(@, user.Email)]
                     /\ Goto(p, "apply2", Ret(Nil, user))
     /\ UNCHANGED <<file, writer, readers, cs, now, metrics, faults, hist>>
  \/ /\ At(p, "apply2", "UpdateUser")
     /\ LET user == [local[p].val EXCEPT !.Email = op[p].email, !.Password = op[p].pwHash]
        IN /\ data' = [data EXCEPT !.Users = Put(@, op[p].userID, user),
                                   !.UserEmailIndex = Put(@, user.Email, user.ID)]
           /\ Goto(p, "write", Ret(Nil, UserOf(user)))
     /\ UNCHANGED <<file, writer, readers, op, cs, now, metrics, faults, hist>>

\* DB.UpgradeUser(userID), called at service.go:484: a mutating method
\* (write lock, reload, mutation, persist) that sets the user's ChirpyRed
UpgradeUser(p) ==
  \/ Lock(p, "", "UpgradeUser")
  \/ /\ At(p, "apply", "UpgradeUser")
     /\ \E userID \in UserIDs :
          /\ Args(p, [op[p] EXCEPT !.userID = userID])
          /\ IF userID \notin DOMAIN data.Users
             THEN /\ UNCHANGED data
                  /\ Goto(p, "unlock", Ret(ErrDoesNotExist, Nil))
             ELSE /\ data' = [data EXCEPT !.Users[userID].ChirpyRed = TRUE]
                  /\ Goto(p, "write", Ret(Nil, Nil))
     /\ UNCHANGED <<file, writer, readers, cs, now, metrics, faults, hist>>

\* for _, v := range m { items = append(items, v) }: the slices a range over
\* map m can build, one for every order in which it may visit the keys
Orders(m) ==
  LET n == Cardinality(DOMAIN m)
  IN {[i \in 1..n |-> m[f[i]]] :
        f \in {g \in [1..n -> DOMAIN m] :
                 \A i \in 1..n, j \in 1..n : i # j => g[i] # g[j]}}

\* items without its i-th element
Without(items, i) ==
  [j \in 1..(Len(items) - 1) |-> IF j < i THEN items[j] ELSE items[j + 1]]

\* Unsorted is SortByID without the call of sort.Slice: the slice is returned
\* in the order the range over the map built it
Unsorted(items) == items

\* sort.Slice(items, func(i, j) bool { return items[i].ID < items[j].ID })
RECURSIVE SortByID(_)
SortByID(items) ==
  IF items = <<>> THEN <<>>
  ELSE LET i == CHOOSE i \in 1..Len(items) :
                  \A j \in 1..Len(items) : ~(items[j].ID < items[i].ID)
       IN <<items[i]>> \o SortByID(Without(items, i))

\* the User of every AuthUser in db.data.Users
UsersOf(d) == [i \in DOMAIN d.Users |-> UserOf(d.Users[i])]

GetUsers(p) ==
  \/ RLock(p, "", "GetUsers")
  \/ /\ At(p, "read", "GetUsers")
     /\ \E users \in Orders(UsersOf(data)) :
          Goto(p, "runlock", Ret(Nil, SortByID(users)))
     /\ UNCHANGED <<data, file, writer, readers, op, cs, now, metrics, faults, hist>>

UserExists(p) ==
  \/ RLock(p, "", "UserExists")
  \/ /\ At(p, "read", "UserExists")
     /\ \E email \in Emails :
          /\ Args(p, [op[p] EXCEPT !.email = email])
          /\ Goto(p, "runlock", Ret(Nil, email \in DOMAIN data.UserEmailIndex))
     /\ UNCHANGED <<data, file, writer, readers, cs, now, metrics, faults, hist>>

\* the older UserExists of internal/database/db.go, which reads the index
\* without taking db.mux.  A map read that overlaps a map write is a data
\* race: it yields either answer, or the runtime stops the process with
\* "fatal error: concurrent map read and map write"
Racing == writer # 0 /\ pc[writer] \in {"load", "apply", "apply2"}

UserExistsNoLock(p) ==
  \/ /\ pc[p] = "idle"
     /\ op' = [op EXCEPT ![p] = [NoOp EXCEPT !.name = "UserExistsNoLock"]]
     /\ pc' = [pc EXCEPT ![p] = "read"]
     /\ UNCHANGED <<data, file, writer, readers, local, cs, now, metrics, faults, hist>>
  \/ /\ At(p, "read", "UserExistsNoLock")
     /\ \E email \in Emails :
          /\ Args(p, [op[p] EXCEPT !.email = email])
          /\ \/ Goto(p, "return", Ret(Nil, email \in DOMAIN data.UserEmailIndex))
             \/ /\ Racing
                /\ \E ok \in BOOLEAN : Goto(p, "return", Ret(Nil, ok))
     /\ UNCHANGED <<data, file, writer, readers, cs, now, metrics, faults, hist>>
  \/ /\ At(p, "read", "UserExistsNoLock")
     /\ Racing
     /\ pc' = [q \in Procs |-> "crashed"]
     /\ UNCHANGED <<data, file, writer, readers, op, local, cs, now, metrics, faults, hist>>
  \/ /\ At(p, "return", "UserExistsNoLock")
     /\ pc' = [pc EXCEPT ![p] = "idle"]
     /\ op' = [op EXCEPT ![p] = NoOp]
     /\ local' = [local EXCEPT ![p] = NoRet]
     /\ UNCHANGED <<data, file, writer, readers, cs, now, metrics, faults, hist>>

\* the result of GetAuthUserByEmail(email) on snapshot d
LookupByEmail(d, email) ==
  IF email \notin DOMAIN d.UserEmailIndex
  THEN Ret(ErrDoesNotExist, ZeroAuthUser)
  ELSE LET userID == d.UserEmailIndex[email]
       IN IF userID \notin DOMAIN d.Users
          THEN Ret(ErrDoesNotExist, ZeroAuthUser)
          ELSE Ret(Nil, d.Users[userID])

GetAuthUserByEmail(p) ==
  \/ RLock(p, "", "GetAuthUserByEmail")
  \/ /\ At(p, "read", "GetAuthUserByEmail")
     /\ \E email \in Emails :
          /\ Args(p, [op[p] EXCEPT !.email = email])
          /\ Goto(p, "runlock", LookupByEmail(data, email))
     /\ UNCHANGED <<data, file, writer, readers, cs, now, metrics, faults, hist>>

\* ------------------------------------------------------------- chirps
\* CreateChirpByCount is CreateChirp numbering the chirp by the size of the
\* map instead of the counter
CreateChirpByCount(p) ==
  \/ /\ data.LastChirpID < MaxID
     /\ Lock(p, "", "CreateChirp")
  \/ /\ At(p, "apply", "CreateChirp")
     /\ \E body \in Bodies, authorID \in UserIDs :
          LET newChirp == [ID |-> Cardinality(DOMAIN data.Chirps) + 1,
                           AuthorID |-> authorID, Body |-> body]
          IN /\ Args(p, [op[p] EXCEPT !.body = body, !.userID = authorID])
             /\ data' = [data EXCEPT !.Chirps = Put(@, newChirp.ID, newChirp),
                                     !.LastChirpID = newChirp.ID]
             /\ Goto(p, "write", Ret(Nil, newChirp))
     /\ UNCHANGED <<file, writer, readers, cs, now, metrics, faults, hist>>

CreateChirp(p) ==
  \/ /\ data.LastChirpID < MaxID
     /\ Lock(p, "", "CreateChirp")
  \/ /\ At(p, "apply", "CreateChirp")
     /\ \E body \in Bodies, authorID \in UserIDs :
          LET newChirp == [ID |-> data.LastChirpID + 1, AuthorID |-> authorID,
                           Body |-> body]
          IN /\ Args(p, [op[p] EXCEPT !.body = body, !.userID = authorID])
             /\ data' = [data EXCEPT !.Chirps = Put(@, newChirp.ID, newChirp),
                                     !.LastChirpID = newChirp.ID]
             /\ Goto(p, "write", Ret(Nil, newChirp))
     /\ UNCHANGED <<file, writer, readers, cs, now, metrics, faults, hist>>

\* the older store of db.go (package main): Create, its only mutating
\* method, on the chirps and their counter
Create(p) ==
  \/ /\ data.LastChirpID < MaxID
     /\ Lock(p, "", "Create")
  \/ /\ At(p, "apply", "Create")
     /\ \E body \in Bodies :
          LET newChirp == [ID |-> data.LastChirpID + 1, AuthorID |-> 0, Body |-> body]
          IN /\ Args(p, [op[p] EXCEPT !.body = body])
             /\ data' = [data EXCEPT !.Chirps = Put(@, newChirp.ID, newChirp),
                                     !.LastChirpID = newChirp.ID]
             /\ Goto(p, "write", Ret(Nil, newChirp))
     /\ UNCHANGED <<file, writer, readers, cs, now, metrics, faults, hist>>

\* GetChirpReloading is GetChirp calling loadDB before it reads db.data
GetChirpReloading(p) ==
  \/ RLock(p, "", "GetChirp")
  \/ /\ At(p, "read", "GetChirp")
     /\ \E chirpID \in 1..MaxID :
          LET d == IF file.state = "ok" THEN Decode(file.doc, data) ELSE data
          IN /\ Args(p, [op[p] EXCEPT !.chirpID = chirpID])
             /\ data' = d
             /\ Goto(p, "runlock",
                     IF file.state # "ok" THEN Ret(ErrIO, ZeroChirp)
                     ELSE IF chirpID \notin DOMAIN d.Chirps
                     THEN Ret(ErrDoesNotExist, ZeroChirp)
                     ELSE Ret(Nil, d.Chirps[chirpID]))
     /\ UNCHANGED <<file, writer, readers, cs, now, metrics, faults, hist>>

\* DB.DeleteChirp(chirpID), called at service.go:259: a mutating method
\* (write lock, reload, mutation, persist) that enforces existence only
DeleteChirp(p) ==
  \/ Lock(p, "", "DeleteChirp")
  \/ /\ At(p, "apply", "DeleteChirp")
     /\ \E chirpID \in 1..MaxID :
          /\ Args(p, [op[p] EXCEPT !.chirpID = chirpID])
          /\ IF chirpID \notin DOMAIN data.Chirps
             THEN /\ UNCHANGED data
                  /\ Goto(p, "unlock", Ret(ErrDoesNotExist, Nil))
             ELSE /\ data' = [data EXCEPT !.Chirps = Delete(@, chirpID)]
                  /\ Goto(p, "write", Ret(Nil, Nil))
     /\ UNCHANGED <<file, writer, readers, cs, now, metrics, faults, hist>>

GetChirp(p) ==
  \/ RLock(p, "", "GetChirp")
  \/ /\ At(p, "read", "GetChirp")
     /\ \E chirpID \in 1..MaxID :
          /\ Args(p, [op[p] EXCEPT !.chirpID = chirpID])
          /\ Goto(p, "runlock",
                  IF chirpID \notin DOMAIN data.Chirps
                  THEN Ret(ErrDoesNotExist, ZeroChirp)
                  ELSE Ret(Nil, data.Chirps[chirpID]))
     /\ UNCHANGED <<data, file, writer, readers, cs, now, metrics, faults, hist>>

GetChirps(p) ==
  \/ RLock(p, "", "GetChirps")
  \/ /\ At(p, "read", "GetChirps")
     /\ \E chirps \in Orders(data.Chirps) :
          Goto(p, "runlock", Ret(Nil, SortByID(chirps)))
     /\ UNCHANGED <<data, file, writer, readers, op, cs, now, metrics, faults, hist>>

\* ------------------------------------------------------ refresh tokens
\* CreateRefreshTokenOverwriting is CreateRefreshToken without the test of
\* RefreshTokens
CreateRefreshTokenOverwriting(p) ==
  \/ Lock(p, "", "CreateRefreshToken")
  \/ /\ At(p, "apply", "CreateRefreshToken")
     /\ \E token \in Tokens, userID \in UserIDs, expiresInSeconds \in TTLs :
          /\ Args(p, [op[p] EXCEPT !.token = token, !.userID = userID,
                                   !.ttl = expiresInSeconds])
          /\ LET rt == [Token |-> token, UserID |-> userID,
                        Expiration |-> now + expiresInSeconds]
             IN /\ data' = [data EXCEPT !.RefreshTokens = Put(@, rt.Token, rt)]
                /\ Goto(p, "write", Ret(Nil, rt))
     /\ UNCHANGED <<file, writer, readers, cs, now, metrics, faults, hist>>

CreateRefreshToken(p) ==
  \/ Lock(p, "", "CreateRefreshToken")
  \/ /\ At(p, "apply", "CreateRefreshToken")
     /\ \E token \in Tokens, userID \in UserIDs, expiresInSeconds \in TTLs :
          /\ Args(p, [op[p] EXCEPT !.token = token, !.userID = userID,
                                   !.ttl = expiresInSeconds])
          /\ IF token \in DOMAIN data.RefreshTokens
             THEN /\ Goto(p, "unlock", Ret(ErrAlreadyExists, ZeroRefreshToken))
                  /\ UNCHANGED data
             ELSE LET rt == [Token |-> token, UserID |-> userID,
                             Expiration |-> now + expiresInSeconds]
                  IN /\ data' = [data EXCEPT !.RefreshTokens = Put(@, rt.Token, rt)]
                     /\ Goto(p, "write", Ret(Nil, rt))
     /\ UNCHANGED <<file, writer, readers, cs, now, metrics, faults, hist>>

\* GetRefreshTokenPurging is GetRefreshToken deleting the entry it returns
\* when that entry has expired
GetRefreshTokenPurging(p) ==
  /\ At(p, "read", "GetRefreshToken")
  /\ \E token \in Tokens :
       /\ Args(p, [op[p] EXCEPT !.token = token])
       /\ IF token \notin DOMAIN data.RefreshTokens
          THEN /\ Goto(p, "runlock", Ret(ErrDoesNotExist, ZeroRefreshToken))
               /\ UNCHANGED data
          ELSE /\ Goto(p, "runlock", Ret(Nil, data.RefreshTokens[token]))
               /\ data' = IF data.RefreshTokens[token].Expiration < now
                          THEN [data EXCEPT !.RefreshTokens = Delete(@, token)]
                          ELSE data
  /\ UNCHANGED <<file, writer, readers, cs, now, metrics, faults, hist>>

GetRefreshToken(p) ==
  /\ At(p, "read", "GetRefreshToken")
  /\ \E token \in Tokens :
       /\ Args(p, [op[p] EXCEPT !.token = token])
       /\ Goto(p, "runlock",
               IF token \notin DOMAIN data.RefreshTokens
               THEN Ret(ErrDoesNotExist, ZeroRefreshToken)
               ELSE Ret(Nil, data.RefreshTokens[token]))
  /\ UNCHANGED <<data, file, writer, readers, cs, now, metrics, faults, hist>>

\* DeleteRefreshTokenWriteFirst is DeleteRefreshToken with its last two
\* statements exchanged: it writes the file, then deletes the entry
DeleteRefreshTokenWriteFirst(p) ==
  \/ Lock(p, "", "DeleteRefreshToken")
  \/ /\ At(p, "apply", "DeleteRefreshToken")
     /\ \E token \in Tokens :
          /\ Args(p, [op[p] EXCEPT !.token = token])
          /\ file' = FileOf(data)
          /\ data' = [data EXCEPT !.RefreshTokens = Delete(@, token)]
          /\ Goto(p, "unlock", Ret(Nil, Nil))
     /\ UNCHANGED <<writer, readers, cs, now, metrics, faults, hist>>

\* DeleteRefreshTokenStrict is DeleteRefreshToken answering ErrDoesNotExist
\* for a token that is not in the map
DeleteRefreshTokenStrict(p) ==
  \/ Lock(p, "", "DeleteRefreshToken")
  \/ /\ At(p, "apply", "DeleteRefreshToken")
     /\ \E token \in Tokens :
          /\ Args(p, [op[p] EXCEPT !.token = token])
          /\ IF token \in DOMAIN data.RefreshTokens
             THEN /\ data' = [data EXCEPT !.RefreshTokens = Delete(@, token)]
                  /\ Goto(p, "write", Ret(Nil, Nil))
             ELSE /\ UNCHANGED data
                  /\ Goto(p, "unlock", Ret(ErrDoesNotExist, Nil))
     /\ UNCHANGED <<file, writer, readers, cs, now, metrics, faults, hist>>

DeleteRefreshToken(p) ==
  \/ Lock(p, "", "DeleteRefreshToken")
  \/ /\ At(p, "apply", "DeleteRefreshToken")
     /\ \E token \in Tokens :
          /\ Args(p, [op[p] EXCEPT !.token = token])
          /\ data' = [data EXCEPT !.RefreshTokens = Delete(@, token)]
          /\ Goto(p, "write", Ret(Nil, Nil))
     /\ UNCHANGED <<file, writer, readers, cs, now, metrics, faults, hist>>

\* refreshVerdictNotAfter is refreshVerdict with !rt.Expiration.After(now)
\* for rt.Expiration.Before(now)
refreshVerdictNotAfter(r, t) ==
  IF r.err # Nil THEN Ret("Invalid token", 401)
  ELSE IF r.val.Expiration <= t THEN Ret("Expired token", 401)
  ELSE Ret(Nil, r.val.UserID)

\* rt.Expiration.Before(time.Now().UTC()), on what GetRefreshToken returned
refreshVerdict(r, t) ==
  IF r.err # Nil THEN Ret("Invalid token", 401)
  ELSE IF r.val.Expiration < t THEN Ret("Expired token", 401)
  ELSE Ret(Nil, r.val.UserID)

\* POST /api/refresh: look the token up, compare its expiry with the clock,
\* answer 401 or a new JWT for the token's user
refreshTokenHandler(p) ==
  \/ RLock(p, "refreshTokenHandler", "GetRefreshToken")
  \/ /\ pc[p] = "handler"
     /\ op[p].handler = "refreshTokenHandler"
     /\ Goto(p, "respond", refreshVerdict(local[p], now))
     /\ hist' = RecordVerdict(p, refreshVerdict(local[p], now))
     /\ UNCHANGED <<data, file, writer, readers, op, cs, now, metrics, faults>>
  \/ /\ pc[p] = "respond"
     /\ op[p].handler = "refreshTokenHandler"
     /\ pc' = [pc EXCEPT ![p] = "idle"]
     /\ op' = [op EXCEPT ![p] = NoOp]
     /\ local' = [local EXCEPT ![p] = NoRet]
     /\ hist' = [hist EXCEPT !.seen[p] = NoSeen]
     /\ UNCHANGED <<data, file, writer, readers, cs, now, metrics, faults>>

\* ---------------------------------------------------------- loginHandler
\* rtExpiresInSeconds, 60 days, in the model's unit of time
rtExpiresInSeconds == 1

\* loginHandlerUnchecked is loginHandler going on to CreateRefreshToken
\* whatever GetAuthUserByEmail and PasswordMatches answered
loginHandlerUnchecked(p) ==
  \/ RLock(p, "loginHandler", "GetAuthUserByEmail")
  \/ /\ pc[p] = "handler"
     /\ op[p].handler = "loginHandler"
     /\ \E password \in Hashes :
          IF FALSE
          THEN /\ pc' = [pc EXCEPT ![p] = "idle"]
               /\ op' = [op EXCEPT ![p] = NoOp]
               /\ local' = [local EXCEPT ![p] = NoRet]
               /\ UNCHANGED writer
          ELSE /\ writer = 0
               /\ writer' = p
               /\ op' = [op EXCEPT ![p] = [NoOp EXCEPT !.handler = "loginHandler",
                                                       !.name = "CreateRefreshToken",
                                                       !.userID = local[p].val.ID]]
               /\ pc' = [pc EXCEPT ![p] = "drain"]
               /\ UNCHANGED local
     /\ UNCHANGED <<data, file, readers, cs, now, metrics, faults, hist>>
  \/ /\ At(p, "apply", "CreateRefreshToken")
     /\ op[p].handler = "loginHandler"
     /\ \E refreshToken \in Tokens :
          /\ Args(p, [op[p] EXCEPT !.token = refreshToken, !.ttl = rtExpiresInSeconds])
          /\ IF refreshToken \in DOMAIN data.RefreshTokens
             THEN /\ Goto(p, "unlock", Ret(ErrAlreadyExists, ZeroRefreshToken))
                  /\ UNCHANGED data
             ELSE LET rt == [Token |-> refreshToken, UserID |-> op[p].userID,
                             Expiration |-> now + rtExpiresInSeconds]
                  IN /\ data' = [data EXCEPT !.RefreshTokens = Put(@, rt.Token, rt)]
                     /\ Goto(p, "write", Ret(Nil, rt))
     /\ UNCHANGED <<file, writer, readers, cs, now, metrics, faults, hist>>

\* loginHandler: GetAuthUserByEmail(lr.Email); on an error or a password
\* that does not match the stored digest it responds; otherwise it calls
\* CreateRefreshToken(auth.NewRefreshToken(), au.ID, rtExpiresInSeconds)
loginHandler(p) ==
  \/ RLock(p, "loginHandler", "GetAuthUserByEmail")
  \/ /\ pc[p] = "handler"
     /\ op[p].handler = "loginHandler"
     /\ \E password \in Hashes :
          IF local[p].err # Nil \/ password # local[p].val.Password
          THEN /\ pc' = [pc EXCEPT ![p] = "idle"]
               /\ op' = [op EXCEPT ![p] = NoOp]
               /\ local' = [local EXCEPT ![p] = NoRet]
               /\ UNCHANGED writer
          ELSE /\ writer = 0
               /\ writer' = p
               /\ op' = [op EXCEPT ![p] = [NoOp EXCEPT !.handler = "loginHandler",
                                                       !.name = "CreateRefreshToken",
                                                       !.userID = local[p].val.ID]]
               /\ pc' = [pc EXCEPT ![p] = "drain"]
               /\ UNCHANGED local
     /\ UNCHANGED <<data, file, readers, cs, now, metrics, faults, hist>>
  \/ /\ At(p, "apply", "CreateRefreshToken")
     /\ op[p].handler = "loginHandler"
     /\ \E refreshToken \in Tokens :
          /\ Args(p, [op[p] EXCEPT !.token = refreshToken, !.ttl = rtExpiresInSeconds])
          /\ IF refreshToken \in DOMAIN data.RefreshTokens
             THEN /\ Goto(p, "unlock", Ret(ErrAlreadyExists, ZeroRefreshToken))
                  /\ UNCHANGED data
             ELSE LET rt == [Token |-> refreshToken, UserID |-> op[p].userID,
                             Expiration |-> now + rtExpiresInSeconds]
                  IN /\ data' = [data EXCEPT !.RefreshTokens = Put(@, rt.Token, rt)]
                     /\ Goto(p, "write", Ret(Nil, rt))
     /\ UNCHANGED <<file, writer, readers, cs, now, metrics, faults, hist>>

\* the first half of createUserHandler (service.go:304-318): the request
\* carries email, cs.db.UserExists(ur.Email) runs under the read lock, and
\* after it has returned the handler answers 409 or goes on to
\* cs.db.CreateUser(ur.Email, pwHash), which takes the write lock
Precheck(p) ==
  \/ RLock(p, "createUserHandler", "UserExists")
  \/ /\ At(p, "read", "UserExists")
     /\ op[p].handler = "createUserHandler"
     /\ \E email \in Emails :
          /\ Args(p, [op[p] EXCEPT !.email = email])
          /\ Goto(p, "runlock", Ret(Nil, email \in DOMAIN data.UserEmailIndex))
          /\ hist' = [hist EXCEPT !.signup.emails = @ \cup {email}]
     /\ UNCHANGED <<data, file, writer, readers, cs, now, metrics, faults>>
  \/ /\ pc[p] = "handler"
     /\ op[p].handler = "createUserHandler"
     /\ local[p].val
     /\ pc' = [pc EXCEPT ![p] = "idle"]
     /\ op' = [op EXCEPT ![p] = NoOp]
     /\ local' = [local EXCEPT ![p] = NoRet]
     /\ hist' = [hist EXCEPT !.signup.rejected = TRUE]
     /\ UNCHANGED <<data, file, writer, readers, cs, now, metrics, faults>>
  \/ /\ pc[p] = "handler"
     /\ op[p].handler = "createUserHandler"
     /\ ~local[p].val
     /\ data.LastUserID < MaxID
     /\ writer = 0
     /\ writer' = p
     /\ \E pwHash \in Hashes :
          op' = [op EXCEPT ![p] = [NoOp EXCEPT !.handler = "createUserHandler",
                                               !.name = "CreateUser",
                                               !.email = op[p].email,
                                               !.pwHash = pwHash]]
     /\ pc' = [pc EXCEPT ![p] = "drain"]
     /\ UNCHANGED <<data, file, readers, local, cs, now, metrics, faults, hist>>

\* createUserHandlerTrusting is createUserHandler calling a CreateUser that
\* relies on the handler's UserExists and does not test the index itself
createUserHandlerTrusting(p) ==
  \/ Precheck(p)
  \/ /\ At(p, "apply", "CreateUser")
     /\ op[p].handler = "createUserHandler"
     /\ LET newUser == [ID |-> data.LastUserID + 1, Email |-> op[p].email,
                        ChirpyRed |-> FALSE, Password |-> op[p].pwHash]
        IN /\ data' = [data EXCEPT
                         !.Users = Put(@, newUser.ID, newUser),
                         !.UserEmailIndex = Put(@, newUser.Email, newUser.ID),
                         !.LastUserID = newUser.ID]
           /\ Goto(p, "write", Ret(Nil, UserOf(newUser)))
     /\ UNCHANGED <<file, writer, readers, op, cs, now, metrics, faults, hist>>

\* createUserHandler (service.go:304-335); the 201 or 500 is written when
\* cs.db.CreateUser has returned
createUserHandler(p) ==
  \/ Precheck(p)
  \/ /\ At(p, "apply", "CreateUser")
     /\ op[p].handler = "createUserHandler"
     /\ IF op[p].email \in DOMAIN data.UserEmailIndex
        THEN /\ Goto(p, "unlock", Ret(ErrAlreadyExists, ZeroUser))
             /\ UNCHANGED data
        ELSE LET newUser == [ID |-> data.LastUserID + 1, Email |-> op[p].email,
                             ChirpyRed |-> FALSE, Password |-> op[p].pwHash]
             IN /\ data' = [data EXCEPT
                              !.Users = Put(@, newUser.ID, newUser),
                              !.UserEmailIndex = Put(@, newUser.Email, newUser.ID),
                              !.LastUserID = newUser.ID]
                /\ Goto(p, "write", Ret(Nil, UserOf(newUser)))
     /\ UNCHANGED <<file, writer, readers, op, cs, now, metrics, faults, hist>>

\* deleteChirpHandler (service.go:228-265): userID is the subject of the
\* request's JWT and chirpID its path value.  cs.db.GetChirp(chirpID) runs
\* under the read lock; after it has returned the handler answers 204 for
\* ErrDoesNotExist, 403 when chirp.AuthorID != userID, and otherwise calls
\* cs.db.DeleteChirp(chirpID), which takes the write lock
deleteChirpHandler(p) ==
  \/ RLock(p, "deleteChirpHandler", "GetChirp")
  \/ /\ At(p, "read", "GetChirp")
     /\ op[p].handler = "deleteChirpHandler"
     /\ \E userID \in UserIDs, chirpID \in 1..MaxID :
          /\ Args(p, [op[p] EXCEPT !.userID = userID, !.chirpID = chirpID])
          /\ Goto(p, "runlock",
                  IF chirpID \notin DOMAIN data.Chirps
                  THEN Ret(ErrDoesNotExist, ZeroChirp)
                  ELSE Ret(Nil, data.Chirps[chirpID]))
     /\ UNCHANGED <<data, file, writer, readers, cs, now, metrics, faults, hist>>
  \/ /\ pc[p] = "handler"
     /\ op[p].handler = "deleteChirpHandler"
     /\ local[p].err = ErrDoesNotExist
     /\ pc' = [pc EXCEPT ![p] = "idle"]
     /\ op' = [op EXCEPT ![p] = NoOp]
     /\ local' = [local EXCEPT ![p] = NoRet]
     /\ UNCHANGED <<data, file, writer, readers, cs, now, metrics, faults, hist>>
  \/ /\ pc[p] = "handler"
     /\ op[p].handler = "deleteChirpHandler"
     /\ local[p].err = Nil
     /\ local[p].val.AuthorID # op[p].userID
     /\ pc' = [pc EXCEPT ![p] = "idle"]
     /\ op' = [op EXCEPT ![p] = NoOp]
     /\ local' = [local EXCEPT ![p] = NoRet]
     /\ UNCHANGED <<data, file, writer, readers, cs, now, metrics, faults, hist>>
  \/ /\ pc[p] = "handler"
     /\ op[p].handler = "deleteChirpHandler"
     /\ local[p].err = Nil
     /\ local[p].val.AuthorID = op[p].userID
     /\ writer = 0
     /\ writer' = p
     /\ op' = [op EXCEPT ![p].name = "DeleteChirp"]
     /\ pc' = [pc EXCEPT ![p] = "drain"]
     /\ UNCHANGED <<data, file, readers, local, cs, now, metrics, faults, hist>>
  \/ /\ At(p, "apply", "DeleteChirp")
     /\ op[p].handler = "deleteChirpHandler"
     /\ IF op[p].chirpID \notin DOMAIN data.Chirps
        THEN /\ UNCHANGED data
             /\ Goto(p, "unlock", Ret(ErrDoesNotExist, Nil))
        ELSE /\ data' = [data EXCEPT !.Chirps = Delete(@, op[p].chirpID)]
             /\ Goto(p, "write", Ret(Nil, Nil))
     /\ UNCHANGED <<file, writer, readers, op, cs, now, metrics, faults, hist>>

\* ------------------------------------------------- createChirpHandler
\* a string is the sequence of its bytes; the letters of the requests
Repeat(c, n) == [i \in 1..n |-> c]

Kerfuffle == <<"K", "e", "r", "f", "u", "f", "f", "l", "e">>

Sharbert == <<"s", "h", "a", "r", "b", "e", "r", "t">>

FornaxBang == <<"f", "o", "r", "n", "a", "x", "!">>

\* the words request bodies are made of: two that the filter masks, one that
\* it leaves, the empty word (two spaces in a row), and two that bring a
\* body to the limit of 140 bytes and beyond
Words ==
  {Kerfuffle, Sharbert, FornaxBang, <<>>, <<"h", "i">>, Repeat("x", 130),
   Repeat("x", 132)}

\* strings.ToLower, on the letters of Words
ToLower(w) ==
  [i \in DOMAIN w |-> CASE w[i] = "K" -> "k" [] w[i] = "S" -> "s"
                         [] w[i] = "F" -> "f" [] OTHER -> w[i]]

\* strings.Split(s, " "): the pieces between the spaces, n + 1 for n spaces
RECURSIVE Split(_)
Split(s) ==
  IF \A i \in DOMAIN s : s[i] # " "
  THEN <<s>>
  ELSE LET i == CHOOSE j \in DOMAIN s :
                  s[j] = " " /\ \A k \in 1..(j - 1) : s[k] # " "
       IN <<SubSeq(s, 1, i - 1)>> \o Split(SubSeq(s, i + 1, Len(s)))

\* strings.Join(words, " ")
RECURSIVE Join(_)
Join(words) ==
  IF Len(words) = 0 THEN <<>>
  ELSE IF Len(words) = 1 THEN words[1]
  ELSE words[1] \o <<" ">> \o Join(Tail(words))

badWords ==
  {<<"k", "e", "r", "f", "u", "f", "f", "l", "e">>, Sharbert,
   <<"f", "o", "r", "n", "a", "x">>}

\* cleanBodyFields is cleanBody splitting with strings.Fields, which drops
\* the empty pieces
cleanBodyFields(body) ==
  LET words == SelectSeq(Split(body), LAMBDA w : w # <<>>)
  IN Join([i \in DOMAIN words |->
             IF ToLower(words[i]) \in badWords THEN Repeat("*", 4) ELSE words[i]])

\* cleanBody (service.go:85-97)
cleanBody(body) ==
  LET words == Split(body)
  IN Join([i \in DOMAIN words |->
             IF ToLower(words[i]) \in badWords THEN Repeat("*", 4) ELSE words[i]])

\* the bodies of the create-chirp requests
Requests ==
  {Join(ws) : ws \in UNION {[1..n -> Words] : n \in 0..MaxWords}}

\* createChirpHandler (service.go:190-226), for a request with a valid token
\* of userID and a body that decodes to cr.Body: 400 for an empty body and
\* for len(cr.Body) > 140, else cs.db.CreateChirp(cleanBody(cr.Body), userID).
\* local holds cr.Body until CreateChirp has reloaded
createChirpHandler(p) ==
  \/ /\ pc[p] = "idle"
     /\ \E body \in Requests :
          /\ body = <<>> \/ Len(body) > 140
          /\ local' = [local EXCEPT ![p] =
                         Ret(IF body = <<>> THEN "Chirp body missing"
                             ELSE "Chirp is too long", 400)]
     /\ op' = [op EXCEPT ![p] = [NoOp EXCEPT !.handler = "createChirpHandler"]]
     /\ pc' = [pc EXCEPT ![p] = "respond"]
     /\ UNCHANGED <<data, file, writer, readers, cs, now, metrics, faults, hist>>
  \/ /\ pc[p] = "respond"
     /\ op[p].handler = "createChirpHandler"
     /\ pc' = [pc EXCEPT ![p] = "idle"]
     /\ op' = [op EXCEPT ![p] = NoOp]
     /\ local' = [local EXCEPT ![p] = NoRet]
     /\ UNCHANGED <<data, file, writer, readers, cs, now, metrics, faults, hist>>
  \/ /\ pc[p] = "idle"
     /\ data.LastChirpID < MaxPerKind
     /\ writer = 0
     /\ writer' = p
     /\ \E body \in Requests, userID \in UserIDs :
          /\ body # <<>>
          /\ Len(body) <= 140
          /\ local' = [local EXCEPT ![p] = Ret(Nil, body)]
          /\ op' = [op EXCEPT ![p] = [NoOp EXCEPT !.handler = "createChirpHandler",
                                                  !.name = "CreateChirp",
                                                  !.body = cleanBody(body),
                                                  !.userID = userID]]
     /\ pc' = [pc EXCEPT ![p] = "drain"]
     /\ UNCHANGED <<data, file, readers, cs, now, metrics, faults, hist>>
  \/ /\ At(p, "apply", "CreateChirp")
     /\ op[p].handler = "createChirpHandler"
     /\ LET newChirp == [ID |-> data.LastChirpID + 1, AuthorID |-> op[p].userID,
                         Body |-> op[p].body]
        IN /\ data' = [data EXCEPT !.Chirps = Put(@, newChirp.ID, newChirp),
                                   !.LastChirpID = newChirp.ID]
           /\ Goto(p, "write", Ret(Nil, newChirp))
     /\ UNCHANGED <<file, writer, readers, op, cs, now, metrics, faults, hist>>

\* ------------------------------------------------------------ NewJWT
\* Go's int and int64 on a 64-bit build: two's complement, kept as five
\* digits of 15 bits, the least significant first, the last one holding bits
\* 60 to 63; arithmetic wraps modulo 2^64
Limb == 32768

Limbs == 5

TopLimb == 16

Wrap64(a) == [a EXCEPT ![Limbs] = @ % TopLimb]

FromNat(n) == <<n % Limb, (n \div Limb) % Limb, n \div (Limb * Limb), 0, 0>>

RECURSIVE AddFrom(_, _, _, _)
AddFrom(a, b, i, c) ==
  IF i > Limbs THEN <<>>
  ELSE <<(a[i] + b[i] + c) % Limb>>
         \o AddFrom(a, b, i + 1, (a[i] + b[i] + c) \div Limb)

Add64(a, b) == Wrap64(AddFrom(a, b, 1, 0))

Neg64(a) ==
  Add64(<<Limb - 1 - a[1], Limb - 1 - a[2], Limb - 1 - a[3], Limb - 1 - a[4],
          TopLimb - 1 - a[5]>>, FromNat(1))

Sub64(a, b) == Add64(a, Neg64(b))

\* the int64 of a literal between -2^31 and 2^31
Int64(n) == IF n >= 0 THEN FromNat(n) ELSE Neg64(FromNat(-n))

\* a times the digit d, from digit i on, with carry c
RECURSIVE MulDigit(_, _, _, _)
MulDigit(a, d, i, c) ==
  IF i > Limbs THEN <<>>
  ELSE <<(a[i] * d + c) % Limb>> \o MulDigit(a, d, i + 1, (a[i] * d + c) \div Limb)

\* a shifted up by k digits
ShlLimbs(a, k) == [i \in 1..Limbs |-> IF i <= k THEN 0 ELSE a[i - k]] \o <<>>

RECURSIVE MulFrom(_, _, _)
MulFrom(a, b, j) ==
  IF j > Limbs THEN FromNat(0)
  ELSE Add64(ShlLimbs(Wrap64(MulDigit(a, b[j], 1, 0)), j - 1), MulFrom(a, b, j + 1))

\* a * b of the language: the low 64 bits of the product
Mul64(a, b) == MulFrom(a, b, 1)

IsNeg(a) == a[Limbs] >= TopLimb \div 2

RECURSIVE LessFrom(_, _, _)
LessFrom(a, b, i) ==
  IF i = 0 THEN FALSE
  ELSE IF a[i] # b[i] THEN a[i] < b[i]
  ELSE LessFrom(a, b, i - 1)

\* a < b on signed values
Less64(a, b) == IF IsNeg(a) # IsNeg(b) THEN IsNeg(a) ELSE LessFrom(a, b, Limbs)

\* bit i of a, bit 1 being the least significant
Bit(a, i) == (a[((i - 1) \div 15) + 1] \div 2^((i - 1) % 15)) % 2

\* long division of magnitude a by b: bit i of a is brought down into the
\* remainder, from the most significant bit; s holds the quotient and the
\* remainder of the bits above bit i
RECURSIVE DivFrom(_, _, _, _)
DivFrom(a, b, i, s) ==
  IF i = 0 THEN s
  ELSE LET r1 == Add64(Add64(s.rem, s.rem), FromNat(Bit(a, i)))
           q1 == Add64(s.quo, s.quo)
       IN IF LessFrom(r1, b, Limbs)
          THEN DivFrom(a, b, i - 1, [quo |-> q1, rem |-> r1])
          ELSE DivFrom(a, b, i - 1, [quo |-> Add64(q1, FromNat(1)),
                                     rem |-> Sub64(r1, b)])

DivMod(a, b) == DivFrom(a, b, 64, [quo |-> FromNat(0), rem |-> FromNat(0)])

Abs64(a) == IF IsNeg(a) THEN Neg64(a) ELSE a

\* a / b and a % b of the language, for b > 0: the quotient is truncated
\* toward zero and the remainder has the sign of a
QuoRem64(a, b) ==
  LET s == DivMod(Abs64(a), b)
  IN IF IsNeg(a) THEN [quo |-> Neg64(s.quo), rem |-> Neg64(s.rem)] ELSE s

\* the Integers value of an int64 between -2^30 and 2^30
ToInt(a) ==
  IF IsNeg(a) THEN -(Neg64(a)[1] + Neg64(a)[2] * Limb) ELSE a[1] + a[2] * Limb

\* MaxExpiresInSeconds = 60 * 60 * 24 (jwt.go:10) and time.Second
MaxExpiresInSeconds == Int64(60 * 60 * 24)

Second == Int64(1000000000)

\* t.Add(d) of package time on a Time kept as seconds and nanoseconds
TimeAdd(t, d) ==
  LET qr == QuoRem64(d, Second)
      dsec == qr.quo
      nsec == t.nsec + ToInt(qr.rem)
  IN IF nsec >= 1000000000
     THEN [sec |-> Add64(t.sec, Add64(dsec, Int64(1))), nsec |-> nsec - 1000000000]
     ELSE IF nsec < 0
     THEN [sec |-> Add64(t.sec, Sub64(dsec, Int64(1))), nsec |-> nsec + 1000000000]
     ELSE [sec |-> Add64(t.sec, dsec), nsec |-> nsec]

\* jwt.NewNumericDate(t): t truncated to the second
NewNumericDate(t) == t.sec

\* NewJWT (jwt.go:13-28), issuedAt being time.Now().UTC(); the token stands
\* for its claims, which GetClaimsFromJWT gives back under the same secret
NewJWT(subject, expiresInSeconds, issuedAt) ==
  LET seconds == IF expiresInSeconds = Int64(0)
                    \/ Less64(MaxExpiresInSeconds, expiresInSeconds)
                 THEN MaxExpiresInSeconds ELSE expiresInSeconds
      expireDuration == Mul64(seconds, Second)
      expiresAt == TimeAdd(issuedAt, expireDuration)
  IN [Issuer |-> "chirpy", Subject |-> subject,
      IssuedAt |-> NewNumericDate(issuedAt),
      ExpiresAt |-> NewNumericDate(expiresAt)]

\* -9223372037 and 9223372037: the first n whose n * time.Second leaves int64
Beyond == Add64(Mul64(Int64(9), Second), Int64(223372037))

\* the values of expiresInSeconds NewJWT is called with
Lifetimes ==
  {Int64(0), Int64(1), Int64(60 * 60), Int64(86400), Int64(86401), Beyond,
   Int64(-1), Neg64(Sub64(Beyond, Int64(1))), Neg64(Beyond)}

\* generateJWT (service.go:135-138) and getUserIDFromJWT (140-146) for one
\* request: the credential is issued for userID at the clock's second and
\* some nanosecond, then parsed, then the request ends
generateJWT(p) ==
  /\ pc[p] = "idle"
  /\ \E userID \in UserIDs, expiresInSeconds \in Lifetimes, nsec \in {0, 999999999} :
       /\ op' = [op EXCEPT ![p] = [NoOp EXCEPT !.name = "generateJWT",
                                               !.userID = userID,
                                               !.ttl = expiresInSeconds]]
       /\ local' = [local EXCEPT ![p] =
                      Ret(Nil, NewJWT(Itoa(userID), expiresInSeconds,
                                      [sec |-> Int64(now), nsec |-> nsec]))]
  /\ pc' = [pc EXCEPT ![p] = "signed"]
  /\ UNCHANGED <<data, file, writer, readers, cs, now, metrics, faults, hist>>

getUserIDFromJWT(p) ==
  \/ /\ pc[p] = "signed"
     /\ local' = [local EXCEPT ![p] = Ret(Nil, Atoi(local[p].val.Subject))]
     /\ pc' = [pc EXCEPT ![p] = "parsed"]
     /\ UNCHANGED <<data, file, writer, readers, op, cs, now, metrics, faults, hist>>
  \/ /\ pc[p] = "parsed"
     /\ pc' = [pc EXCEPT ![p] = "idle"]
     /\ op' = [op EXCEPT ![p] = NoOp]
     /\ local' = [local EXCEPT ![p] = NoRet]
     /\ UNCHANGED <<data, file, writer, readers, cs, now, metrics, faults, hist>>

\* the clock advances
Tick ==
  /\ now < MaxNow
  /\ now' = now + 1
  /\ UNCHANGED <<data, file, writer, readers, pc, op, local, cs, faults, hist, metrics>>

\* ---------------------------------------------------- specifications
Shared(p) ==
  \/ Locked(p)
  \/ loadDB(p)
  \/ writeDB(p)
  \/ Unlock(p)
  \/ RUnlock(p)

NextUsers ==
  \E p \in Procs :
    \/ Shared(p)
    \/ CreateUser(p)
    \/ UpdateUser(p)
    \/ UserExists(p)
    \/ GetAuthUserByEmail(p)

SpecUsers == Init /\ [][NextUsers]_vars

\* the store with the UserExists of internal/database/db.go among its readers
NextRace ==
  \E p \in Procs :
    \/ Shared(p)
    \/ CreateUser(p)
    \/ UpdateUser(p)
    \/ UserExists(p)
    \/ UserExistsNoLock(p)

SpecRace == Init /\ [][NextRace]_vars

NextChirps ==
  \E p \in Procs :
    \/ Shared(p)
    \/ CreateChirp(p)
    \/ GetChirp(p)
    \/ GetChirps(p)
    \/ CreateUser(p)
    \/ GetUsers(p)

SpecChirps == Init /\ [][NextChirps]_vars

NextTokens ==
  \/ Tick
  \/ \E p \in Procs :
       \/ Shared(p)
       \/ CreateRefreshToken(p)
       \/ GetRefreshToken(p)
       \/ DeleteRefreshToken(p)
       \/ refreshTokenHandler(p)

SpecTokens == Init /\ [][NextTokens]_vars

\* --------------------------------------------------- the file, from outside
\* the snapshot of a store that has served one createUser, one createPost
\* and one issue
Seeded ==
  [LastChirpID |-> 1,
   LastUserID |-> 1,
   Chirps |-> Put(EmptyMap, 1, [ID |-> 1, AuthorID |-> 1, Body |-> "c"]),
   Users |-> Put(EmptyMap, 1, [ID |-> 1, Email |-> "a@x.com", ChirpyRed |-> FALSE,
                               Password |-> "d1"]),
   UserEmailIndex |-> Put(EmptyMap, "a@x.com", 1),
   RefreshTokens |-> Put(EmptyMap, "t2", [Token |-> "t2", UserID |-> 1, Expiration |-> 1])]

\* a second chirpy process started with --debug on the same path: its NewDB
\* removes the file, its ensureDB writes the empty snapshot, and its methods
\* write what it has stored since
External ==
  /\ \/ file.state = "ok" /\ file' = Missing
     \/ file.state = "missing" /\ file' = FileOf(EmptyData)
     \/ file = FileOf(EmptyData) /\ file' = FileOf(Seeded)
  /\ UNCHANGED <<data, writer, readers, pc, op, local, cs, now, metrics, faults, hist>>

\* what the read method of call o returns on snapshot d
ReadResult(o, d) ==
  CASE o.name = "GetUsers" ->
         Ret(Nil, SortByID(CHOOSE users \in Orders(UsersOf(d)) : TRUE))
    [] o.name = "UserExists" -> Ret(Nil, o.email \in DOMAIN d.UserEmailIndex)
    [] o.name = "GetAuthUserByEmail" -> LookupByEmail(d, o.email)
    [] o.name = "GetChirp" ->
         IF o.chirpID \in DOMAIN d.Chirps THEN Ret(Nil, d.Chirps[o.chirpID])
         ELSE Ret(ErrDoesNotExist, ZeroChirp)
    [] o.name = "GetChirps" ->
         Ret(Nil, SortByID(CHOOSE chirps \in Orders(d.Chirps) : TRUE))
    [] o.name = "GetRefreshToken" ->
         IF o.token \in DOMAIN d.RefreshTokens THEN Ret(Nil, d.RefreshTokens[o.token])
         ELSE Ret(ErrDoesNotExist, ZeroRefreshToken)

\* every read method beside createPost, the file changing from outside
NextReads ==
  \/ External
  \/ \E p \in Procs :
       \/ Shared(p)
       \/ Len(hist.chirpIDs) < MaxID /\ CreateChirp(p)
       \/ GetUsers(p)
       \/ UserExists(p)
       \/ GetAuthUserByEmail(p)
       \/ GetChirp(p)
       \/ GetChirps(p)
       \/ RLock(p, "", "GetRefreshToken")
       \/ GetRefreshToken(p)

SpecReads == Init /\ [][NextReads]_vars

\* ------------------------------------------- one more request in flight
\* the goroutines of the server when one more request than NumProcs is served
Goroutines == 1..(NumProcs + 1)

InitLock ==
  /\ data = EmptyData
  /\ file = FileOf(EmptyData)
  /\ writer = 0
  /\ readers = {}
  /\ pc = [p \in Goroutines |-> "idle"]
  /\ op = [p \in Goroutines |-> NoOp]
  /\ local = [p \in Goroutines |-> NoRet]
  /\ cs = NoCS
  /\ now = 0
  /\ faults = 0
  /\ hist = NoHist
  /\ metrics = NoMetrics

NextLock ==
  \E p \in Goroutines :
    \/ Shared(p)
    \/ CreateChirp(p)
    \/ GetChirp(p)
    \/ GetChirps(p)

SpecLock == InitLock /\ [][NextLock]_vars

\* every mutating method beside the reads that look its record up
NextStore ==
  \E p \in Procs :
    \/ Shared(p)
    \/ data.LastUserID < MaxPerKind /\ CreateUser(p)
    \/ UpdateUser(p)
    \/ GetAuthUserByEmail(p)
    \/ data.LastChirpID < MaxPerKind /\ CreateChirp(p)
    \/ GetChirp(p)
    \/ CreateRefreshToken(p)
    \/ DeleteRefreshToken(p)
    \/ RLock(p, "", "GetRefreshToken")
    \/ GetRefreshToken(p)

SpecStore == Init /\ [][NextStore]_vars

\* --------------------------------------------------------------- NewDB
\* NewDB returns: file f is at the path; with a nil error the server starts
\* and its goroutines share the store holding d, otherwise main ends in
\* log.Fatalf and there is no store.  k I/O calls have failed on the way
Started(truncate, f, d, err, k) ==
  /\ file' = f
  /\ data' = IF err = Nil THEN d ELSE EmptyData
  /\ pc' = [p \in Procs |-> IF err = Nil THEN "idle" ELSE "down"]
  /\ faults' = faults + k
  /\ hist' = [hist EXCEPT !.boot = [n |-> @.n + 1, truncate |-> truncate, err |-> err,
                                     data |-> IF err = Nil THEN d ELSE EmptyData],
                     !.dirty = FALSE]
  /\ writer' = 0
  /\ readers' = {}
  /\ op' = [p \in Procs |-> NoOp]
  /\ local' = [p \in Procs |-> NoRet]
  /\ cs' = NoCS
  /\ UNCHANGED <<now, metrics>>

\* ensureDBStrict is ensureDB returning every error of loadDB, that of a
\* missing file too
ensureDBStrict(truncate, r, k) ==
  \/ /\ r.state = "missing"
     /\ Started(truncate, r, EmptyData, ErrIO, k)
  \/ /\ r.state = "ok"
     /\ Started(truncate, r, Decode(r.doc, EmptyData), Nil, k)
  \/ /\ r.state = "ok"
     /\ faults + k < MaxFaults
     /\ Started(truncate, r, EmptyData, ErrIO, k + 1)
  \/ /\ r.state = "truncated"
     /\ Started(truncate, r, EmptyData, ErrIO, k)

\* ensureDBOverwriting is ensureDB calling writeDB after every error of
\* loadDB, not only that of a missing file
ensureDBOverwriting(truncate, r, k) ==
  \/ /\ r.state \in {"missing", "truncated"}
     /\ Started(truncate, FileOf(EmptyData), EmptyData, Nil, k)
  \/ /\ r.state \in {"missing", "truncated"}
     /\ faults + k < MaxFaults
     /\ \E f \in {r, Truncated} : Started(truncate, f, EmptyData, ErrIO, k + 1)
  \/ /\ r.state = "ok"
     /\ Started(truncate, r, Decode(r.doc, EmptyData), Nil, k)
  \/ /\ r.state = "ok"
     /\ faults + k < MaxFaults
     /\ Started(truncate, r, EmptyData, ErrIO, k + 1)

\* newDB.ensureDB() on the store just built with the empty snapshot, file r at
\* the path: loadDB, and writeDB if loadDB failed for want of a file
ensureDB(truncate, r, k) ==
  \/ /\ r.state = "missing"
     /\ Started(truncate, FileOf(EmptyData), EmptyData, Nil, k)
  \/ /\ r.state = "missing"          \* os.WriteFile fails, before or after creating
     /\ faults + k < MaxFaults
     /\ \E f \in {Missing, Truncated} : Started(truncate, f, EmptyData, ErrIO, k + 1)
  \/ /\ r.state = "ok"
     /\ Started(truncate, r, Decode(r.doc, EmptyData), Nil, k)
  \/ /\ r.state = "ok"               \* os.ReadFile fails
     /\ faults + k < MaxFaults
     /\ Started(truncate, r, EmptyData, ErrIO, k + 1)
  \/ /\ r.state = "truncated"        \* the decoder fails
     /\ Started(truncate, r, EmptyData, ErrIO, k)

\* main calls database.NewDB(dbPath, *dbg) when the process starts, no
\* request being served: os.Remove(path) if truncate, its error dropped, then
\* ensureDB on the empty snapshot
NewDB(truncate) ==
  /\ hist.boot.n < MaxBoots
  /\ \A p \in Procs : pc[p] \in {"idle", "down"}
  /\ \/ /\ truncate
        /\ ensureDB(truncate, Missing, 0)
     \/ /\ truncate                  \* os.Remove fails
        /\ file.state # "missing"
        /\ faults < MaxFaults
        /\ ensureDB(truncate, file, 1)
     \/ /\ ~truncate
        /\ ensureDB(truncate, file, 0)

\* the process has never run: no file, no store
InitBoot ==
  /\ data = EmptyData
  /\ file = Missing
  /\ writer = 0
  /\ readers = {}
  /\ pc = [p \in Procs |-> "down"]
  /\ op = [p \in Procs |-> NoOp]
  /\ local = [p \in Procs |-> NoRet]
  /\ cs = NoCS
  /\ now = 0
  /\ faults = 0
  /\ hist = NoHist
  /\ metrics = NoMetrics

\* the process is started, serves requests, is stopped and started again
NextBoot ==
  \/ \E truncate \in BOOLEAN : NewDB(truncate)
  \/ \E p \in Procs :
       \/ Shared(p)
       \/ data.LastUserID < MaxPerKind /\ CreateUser(p)
       \/ data.LastChirpID < MaxPerKind /\ CreateChirp(p)
       \/ Cardinality(DOMAIN data.RefreshTokens) < MaxPerKind /\ CreateRefreshToken(p)
       \/ GetChirps(p)

SpecBoot == InitBoot /\ [][NextBoot]_vars

\* the store with the Create of db.go among its methods
NextLegacy ==
  \E p \in Procs :
    \/ Shared(p)
    \/ Create(p)
    \/ CreateChirp(p)
    \/ GetChirp(p)

SpecLegacy == Init /\ [][NextLegacy]_vars

\* the chirp methods with DeleteChirp
NextPosts ==
  \E p \in Procs :
    \/ Shared(p)
    \/ CreateChirp(p)
    \/ DeleteChirp(p)
    \/ GetChirp(p)

SpecPosts == Init /\ [][NextPosts]_vars

\* a store that holds one user, one chirp of that user and one refresh token
InitAccounts ==
  /\ data = Seeded
  /\ file = FileOf(Seeded)
  /\ writer = 0
  /\ readers = {}
  /\ pc = [p \in Procs |-> "idle"]
  /\ op = [p \in Procs |-> NoOp]
  /\ local = [p \in Procs |-> NoRet]
  /\ cs = NoCS
  /\ now = 0
  /\ faults = 0
  /\ hist = [NoHist EXCEPT !.chirpIDs = <<1>>, !.userIDs = <<1>>]
  /\ metrics = NoMetrics

\* the user methods with UpgradeUser
NextAccounts ==
  \E p \in Procs :
    \/ Shared(p)
    \/ CreateUser(p)
    \/ UpdateUser(p)
    \/ UpgradeUser(p)
    \/ GetAuthUserByEmail(p)

SpecAccounts == InitAccounts /\ [][NextAccounts]_vars

\* the login flow beside the user methods
NextLogin ==
  \E p \in Procs :
    \/ Shared(p)
    \/ CreateUser(p)
    \/ UpdateUser(p)
    \/ GetAuthUserByEmail(p)
    \/ /\ pc[p] = "idle" => Cardinality(DOMAIN data.RefreshTokens) < MaxPerKind
       /\ loginHandler(p)

SpecLogin == Init /\ [][NextLogin]_vars

\* create-user requests only, each through createUserHandler
NextSignup ==
  \E p \in Procs :
    \/ Shared(p)
    \/ createUserHandler(p)

SpecSignup == Init /\ [][NextSignup]_vars

\* concurrent create-chirp and delete-chirp requests
NextDelete ==
  \E p \in Procs :
    \/ Shared(p)
    \/ CreateChirp(p)
    \/ deleteChirpHandler(p)

SpecDelete == Init /\ [][NextDelete]_vars

\* the token methods, called by goroutines that wait at the lock
Steps(p) ==
  \/ Shared(p)
  \/ CreateRefreshToken(p)
  \/ DeleteRefreshToken(p)
  \/ GetRefreshToken(p)

NextLive ==
  \E p \in Procs :
    \/ \E name \in {"CreateRefreshToken", "DeleteRefreshToken", "GetRefreshToken"} :
         Call(p, name)
    \/ Acquire(p)
    \/ Steps(p)

\* file I/O and every other step of a running method terminate, and the lock
\* is fair: a goroutine for which the lock is free again and again gets it
Fairness ==
  \A p \in Procs :
    /\ WF_vars(pc[p] # "idle" /\ Steps(p))
    /\ SF_vars(Acquire(p))

SpecLive == Init /\ [][NextLive]_vars /\ Fairness

\* create-chirp requests, each through createChirpHandler
NextFilter ==
  \E p \in Procs :
    \/ Locked(p)
    \/ loadDB(p)
    \/ writeDB(p)
    \/ Unlock(p)
    \/ createChirpHandler(p)

SpecFilter == Init /\ [][NextFilter]_vars

\* ---------------------------------------------------------- the hit counter
\* fileserverHits = v: the store of an increment (n = counted + 1) or of a
\* reset (n = 0)
StoreHits(v, n) ==
  [metrics EXCEPT !.fileserverHits = v, !.counted = n, !.held = @ \cup {v}]

\* chirpyService.middlewareMetricsInc: metricsMux.Lock(), fileserverHits++ (a
\* load and a store), metricsMux.Unlock(); the wrapped file server keeps no
\* state
middlewareMetricsInc(p) ==
  /\ \/ /\ pc[p] = "idle"
        /\ metrics.writer = 0 /\ metrics.readers = {}
        /\ metrics.fileserverHits < MaxHits
        /\ metrics' = [metrics EXCEPT !.writer = p]
        /\ op' = [op EXCEPT ![p] = [NoOp EXCEPT !.name = "middlewareMetricsInc"]]
        /\ pc' = [pc EXCEPT ![p] = "hits"]
        /\ local' = [local EXCEPT ![p] = NoRet]
     \/ /\ pc[p] = "hits" /\ metrics.writer = p
        /\ local' = [local EXCEPT ![p] = Ret(Nil, metrics.fileserverHits)]
        /\ pc' = [pc EXCEPT ![p] = "hits++"]
        /\ UNCHANGED <<op, metrics>>
     \/ /\ pc[p] = "hits++" /\ metrics.writer = p
        /\ metrics' = StoreHits(local[p].val + 1, metrics.counted + 1)
        /\ pc' = [pc EXCEPT ![p] = "counted"]
        /\ UNCHANGED <<op, local>>
     \/ /\ pc[p] = "counted" /\ metrics.writer = p
        /\ metrics' = [metrics EXCEPT !.writer = 0]
        /\ pc' = [pc EXCEPT ![p] = "idle"]
        /\ op' = [op EXCEPT ![p] = NoOp]
        /\ local' = [local EXCEPT ![p] = NoRet]
  /\ UNCHANGED <<data, file, writer, readers, cs, now, faults, hist>>

\* chirpyService.metricsHandler: metricsMux.RLock(), the page is formatted
\* from fileserverHits, the deferred RUnlock() runs as the handler returns
metricsHandler(p) ==
  /\ \/ /\ pc[p] = "idle"
        /\ metrics.writer = 0
        /\ metrics' = [metrics EXCEPT !.readers = @ \cup {p}]
        /\ op' = [op EXCEPT ![p] = [NoOp EXCEPT !.name = "metricsHandler"]]
        /\ pc' = [pc EXCEPT ![p] = "report"]
        /\ local' = [local EXCEPT ![p] = NoRet]
     \/ /\ pc[p] = "report" /\ p \in metrics.readers
        /\ local' = [local EXCEPT ![p] = Ret(Nil, metrics.fileserverHits)]
        /\ pc' = [pc EXCEPT ![p] = "reported"]
        /\ UNCHANGED <<op, metrics>>
     \/ /\ pc[p] = "reported" /\ p \in metrics.readers
        /\ metrics' = [metrics EXCEPT !.readers = @ \ {p}]
        /\ pc' = [pc EXCEPT ![p] = "idle"]
        /\ op' = [op EXCEPT ![p] = NoOp]
        /\ local' = [local EXCEPT ![p] = NoRet]
  /\ UNCHANGED <<data, file, writer, readers, cs, now, faults, hist>>

\* chirpyService.resetHandler: metricsMux.Lock(), fileserverHits = 0,
\* metricsMux.Unlock()
resetHandler(p) ==
  /\ \/ /\ pc[p] = "idle"
        /\ metrics.writer = 0 /\ metrics.readers = {}
        /\ metrics' = [metrics EXCEPT !.writer = p]
        /\ op' = [op EXCEPT ![p] = [NoOp EXCEPT !.name = "resetHandler"]]
        /\ pc' = [pc EXCEPT ![p] = "zero"]
        /\ local' = [local EXCEPT ![p] = NoRet]
     \/ /\ pc[p] = "zero" /\ metrics.writer = p
        /\ metrics' = StoreHits(0, 0)
        /\ pc' = [pc EXCEPT ![p] = "zeroed"]
        /\ UNCHANGED <<op, local>>
     \/ /\ pc[p] = "zeroed" /\ metrics.writer = p
        /\ metrics' = [metrics EXCEPT !.writer = 0]
        /\ pc' = [pc EXCEPT ![p] = "idle"]
        /\ op' = [op EXCEPT ![p] = NoOp]
        /\ local' = [local EXCEPT ![p] = NoRet]
  /\ UNCHANGED <<data, file, writer, readers, cs, now, faults, hist>>

\* apiConfig.resetHandler of the earlier metrics file: fileserverHits = 0
\* without taking cfg.mux, then the 200 response
resetHandlerNoLock(p) ==
  /\ \/ /\ pc[p] = "idle"
        /\ metrics' = StoreHits(0, 0)
        /\ op' = [op EXCEPT ![p] = [NoOp EXCEPT !.name = "resetHandler"]]
        /\ pc' = [pc EXCEPT ![p] = "zeroed"]
        /\ local' = [local EXCEPT ![p] = NoRet]
     \/ /\ pc[p] = "zeroed" /\ metrics.writer # p
        /\ pc' = [pc EXCEPT ![p] = "idle"]
        /\ op' = [op EXCEPT ![p] = NoOp]
        /\ local' = [local EXCEPT ![p] = NoRet]
        /\ UNCHANGED metrics
  /\ UNCHANGED <<data, file, writer, readers, cs, now, faults, hist>>

\* apiConfig.middlewareMetricsInc of db.go: cfg.fileserverHits++ with no mutex,
\* a load and a store that other requests can come between
middlewareMetricsIncNoLock(p) ==
  /\ \/ /\ pc[p] = "idle"
        /\ metrics.fileserverHits < MaxHits
        /\ local' = [local EXCEPT ![p] = Ret(Nil, metrics.fileserverHits)]
        /\ op' = [op EXCEPT ![p] = [NoOp EXCEPT !.name = "middlewareMetricsInc"]]
        /\ pc' = [pc EXCEPT ![p] = "hits++"]
        /\ UNCHANGED metrics
     \/ /\ pc[p] = "hits++" /\ metrics.writer # p
        /\ metrics' = StoreHits(local[p].val + 1, metrics.counted + 1)
        /\ pc' = [pc EXCEPT ![p] = "idle"]
        /\ op' = [op EXCEPT ![p] = NoOp]
        /\ local' = [local EXCEPT ![p] = NoRet]
  /\ UNCHANGED <<data, file, writer, readers, cs, now, faults, hist>>

\* apiConfig.metricsHandler of db.go: the page is formatted from
\* cfg.fileserverHits with no mutex
metricsHandlerNoLock(p) ==
  /\ \/ /\ pc[p] = "idle"
        /\ local' = [local EXCEPT ![p] = Ret(Nil, metrics.fileserverHits)]
        /\ op' = [op EXCEPT ![p] = [NoOp EXCEPT !.name = "metricsHandler"]]
        /\ pc' = [pc EXCEPT ![p] = "reported"]
     \/ /\ pc[p] = "reported" /\ p \notin metrics.readers
        /\ pc' = [pc EXCEPT ![p] = "idle"]
        /\ op' = [op EXCEPT ![p] = NoOp]
        /\ local' = [local EXCEPT ![p] = NoRet]
  /\ UNCHANGED <<data, file, writer, readers, cs, now, faults, hist, metrics>>

\* the service's metrics routes: /app, /admin/metrics, /api/reset
NextMetrics ==
  \E p \in Procs :
    \/ middlewareMetricsInc(p)
    \/ metricsHandler(p)
    \/ resetHandler(p)

SpecMetrics == Init /\ [][NextMetrics]_vars

\* the routes of the earlier metrics file: the reset takes no lock
NextConfig ==
  \E p \in Procs :
    \/ middlewareMetricsInc(p)
    \/ metricsHandler(p)
    \/ resetHandlerNoLock(p)

SpecConfig == Init /\ [][NextConfig]_vars

\* the routes of db.go: no handler takes a lock
NextPlain ==
  \E p \in Procs :
    \/ middlewareMetricsIncNoLock(p)
    \/ metricsHandlerNoLock(p)
    \/ resetHandlerNoLock(p)

SpecPlain == Init /\ [][NextPlain]_vars

\* access credentials issued and parsed while the clock advances
NextJWT ==
  \/ Tick
  \/ \E p \in Procs :
       \/ generateJWT(p)
       \/ getUserIDFromJWT(p)

SpecJWT == Init /\ [][NextJWT]_vars

\* ============================================================ properties
InSection(p) == pc[p] \in Section

\* a reading method is at the statements that read db.data
Reading(p) == pc[p] = "read"

\* C1: at any moment at most one mutating operation is between its reload
\* and its persist, and no read operation is reading the in-memory snapshot
\* while a mutating operation is there
C1_MutualExclusion ==
  \A p \in Procs, q \in Procs :
    (p # q /\ InSection(p)) => (~InSection(q) /\ ~Reading(q))

\* every goroutine is outside the store
Quiescent == \A p \in Procs : pc[p] = "idle"

\* ID i was returned by the i-th successful call, for every successful call
Consecutive(ids) == \A i \in 1..Len(ids) : ids[i] = i

\* a createPost is returning success
Created(p) == At(p, "unlock", "CreateChirp") /\ local[p].err = Nil

\* C2 as stated: with lastPostID = k at the call, the successful createPost
\* calls return the IDs k+1, k+2, ... each once and without gap (1..k' on
\* the new store) and, once all calls have returned, lastPostID = k'
C2_AsStated ==
  /\ Consecutive(hist.chirpIDs)
  /\ \A p \in Procs :
       Created(p) => local[p].val.ID = cs.data.LastChirpID + 1
  /\ Quiescent => data.LastChirpID = Len(hist.chirpIDs)

\* C2 amended: with the persisted lastPostID = k at the call, the successful
\* createPost calls return the IDs k+1, k+2, ... each once and without gap
\* (1..k' on the new store) and persist them as lastPostID; once all calls
\* have returned the persisted lastPostID is k', and the in-memory
\* lastPostID is k' or, after a createPost whose persist failed, k'+1
C2_UniqueIDsNoGaps ==
  /\ Consecutive(hist.chirpIDs)
  /\ \A p \in Procs :
       Created(p) =>
         /\ local[p].val.ID = cs.file.doc.last_chirp_id + 1
         /\ local[p].val.ID = Len(hist.chirpIDs) + 1
         /\ file.doc.last_chirp_id = local[p].val.ID
         /\ data.LastChirpID = local[p].val.ID
  /\ Quiescent =>
       /\ file.state = "ok" => file.doc.last_chirp_id = Len(hist.chirpIDs)
       /\ data.LastChirpID \in {Len(hist.chirpIDs), Len(hist.chirpIDs) + 1}
       /\ faults = 0 => data.LastChirpID = Len(hist.chirpIDs)

\* two createPost calls have succeeded, the second returning after a
\* createPost whose persist failed
C2_Witness ==
  /\ Quiescent
  /\ hist.chirpIDs = <<1, 2>>
  /\ faults > 0
  /\ data.LastChirpID = 2

\* the goroutine holding the write lock, from Lock's return to Unlock
Holder(p, name) ==
  /\ op[p].name = name
  /\ pc[p] \in Section \cup {"unlock"}

\* C3 as stated: the IDs of successful createPost calls are 1, 2, ... in
\* call order, likewise those of successful createUser calls, and from its
\* call to its return a createUser leaves lastPostID, and a createPost
\* lastUserID, at the value it had before the call
C3_AsStated ==
  /\ Consecutive(hist.chirpIDs)
  /\ Consecutive(hist.userIDs)
  /\ \A p \in Procs :
       /\ Holder(p, "CreateUser") => data.LastChirpID = cs.data.LastChirpID
       /\ Holder(p, "CreateChirp") => data.LastUserID = cs.data.LastUserID

\* C3 amended: the IDs of successful createPost calls are 1, 2, ... in call
\* order, likewise those of successful createUser calls; a createUser leaves
\* lastPostID, and a createPost lastUserID, at the value its reload read
\* (the value before the call when no persist has failed), and a successful
\* one leaves the other counter in the file as it was
C3_MonotoneIDs ==
  /\ Consecutive(hist.chirpIDs)
  /\ Consecutive(hist.userIDs)
  /\ \A p \in Procs :
       /\ Holder(p, "CreateUser") =>
            /\ data.LastChirpID = cs.loaded.LastChirpID
            /\ faults = 0 => data.LastChirpID = cs.data.LastChirpID
            /\ (file.state = "ok" /\ cs.file.state = "ok") =>
                 file.doc.last_chirp_id = cs.file.doc.last_chirp_id
       /\ Holder(p, "CreateChirp") =>
            /\ data.LastUserID = cs.loaded.LastUserID
            /\ faults = 0 => data.LastUserID = cs.data.LastUserID
            /\ (file.state = "ok" /\ cs.file.state = "ok") =>
                 file.doc.last_user_id = cs.file.doc.last_user_id

\* a second createUser returns ID 2 after a createPost returned ID 1, the
\* chirp counter still 1 in memory and in the file
C3_Witness ==
  \E p \in Procs :
    /\ At(p, "unlock", "CreateUser")
    /\ local[p].err = Nil
    /\ local[p].val.ID = 2
    /\ hist.userIDs = <<1>>
    /\ hist.chirpIDs = <<1>>
    /\ data.LastChirpID = 1
    /\ file.state = "ok"
    /\ file.doc.last_chirp_id = 1

\* no goroutine holds the write lock: what a reader under RLock can see
Observable == \A p \in Procs : ~Holder(p, op[p].name)

\* C4: in every state observable outside the write lock, emailIndex[e] = i
\* if and only if users[i] exists and users[i].email = e (stated for the
\* runs without any I/O failure, where only createUser and updateUser have
\* shaped the snapshot)
C4_EmailIndex ==
  (Observable /\ faults = 0) =>
    \A e \in Emails, i \in UserIDs :
      (e \in DOMAIN data.UserEmailIndex /\ data.UserEmailIndex[e] = i)
        <=> (i \in DOMAIN data.Users /\ data.Users[i].Email = e)

\* a createUser called with an email that UserEmailIndex held at the call
Collides(p) ==
  /\ At(p, "unlock", "CreateUser")
  /\ op[p].email \in DOMAIN cs.data.UserEmailIndex

\* C5 as stated: createUser with an email already in emailIndex returns
\* AlreadyExists and leaves users, emailIndex, lastUserID and the file as
\* they were before the call
C5_AsStated ==
  \A p \in Procs :
    Collides(p) =>
      /\ local[p].err = ErrAlreadyExists
      /\ data.Users = cs.data.Users
      /\ data.UserEmailIndex = cs.data.UserEmailIndex
      /\ data.LastUserID = cs.data.LastUserID
      /\ file = cs.file

\* C5 amended: createUser with an email already in emailIndex returns
\* AlreadyExists, leaves the file unwritten and the snapshot as its reload
\* produced it: the email is still indexed, lastUserID is the file's (no ID
\* consumed), and the snapshot is the one before the call whenever that one
\* mirrored the file
C5_DuplicateEmailRejected ==
  \A p \in Procs :
    Collides(p) =>
      /\ local[p].err = ErrAlreadyExists
      /\ file = cs.file
      /\ data = cs.loaded
      /\ data = Decode(file.doc, cs.data)
      /\ op[p].email \in DOMAIN data.UserEmailIndex
      /\ data.LastUserID = file.doc.last_user_id
      /\ cs.file = FileOf(cs.data) => data = cs.data
      /\ faults = 0 => data = cs.data

\* a createUser is rejected for an email whose user keeps digest d1 while
\* the call carried d2
C5_Witness ==
  \E p \in Procs :
    /\ Collides(p)
    /\ local[p].err = ErrAlreadyExists
    /\ op[p].email = "a@x.com"
    /\ op[p].pwHash = "d2"
    /\ data.UserEmailIndex["a@x.com"] = 1
    /\ data.Users[1].Password = "d1"
    /\ data.LastUserID = 1
    /\ faults = 0

\* GetAuthUserByEmail(e) on snapshot d returns user u
Resolves(d, e, u) ==
  /\ LookupByEmail(d, e).err = Nil
  /\ LookupByEmail(d, e).val.ID = u

\* an UpdateUser that has carried out its change of the user's email
EmailChanged(p) ==
  /\ At(p, "unlock", "UpdateUser")
  /\ local[p].err \in {Nil, ErrIO}
  /\ op[p].email \in Emails
  /\ cs.loaded.Users[op[p].userID].Email # op[p].email

\* C6: an updateUser changing user u's email from a to b is atomic for
\* getUserByEmail: in the state readers saw before it exactly one of a, b
\* resolves to u, in the state they see after it a is NotFound and b
\* resolves to u, and no getUserByEmail runs in between
C6_AtomicEmailChange ==
  /\ \A p \in Procs :
       EmailChanged(p) =>
         LET u == op[p].userID
             a == cs.loaded.Users[u].Email
             b == op[p].email
         IN /\ Resolves(cs.data, a, u) # Resolves(cs.data, b, u)
            /\ ~Resolves(data, a, u)
            /\ Resolves(data, b, u)
  /\ \A p \in Procs, q \in Procs :
       (Holder(p, "UpdateUser") /\ op[q].name = "GetAuthUserByEmail")
         => pc[q] \notin {"read", "runlock"}

\* a validate of Tracked has answered and not yet returned
Answered(p) ==
  /\ pc[p] = "respond"
  /\ op[p].handler = "refreshTokenHandler"
  /\ op[p].token = Tracked

\* what validate answers for record rt when its expiry check reads clock t
Expected(rt, t) ==
  IF t <= rt.Expiration THEN Ret(Nil, rt.UserID) ELSE Ret("Expired token", 401)

C8_AsStated ==
  \A p \in Procs :
    (Answered(p) /\ hist.seen[p].tok.rev = "seen")
      => local[p].err = "Invalid token"

\* C8 amended: once a revoke(t) has returned success and a later validate(t)
\* has returned NotFound, every later validate(t) returns NotFound until an
\* issue of t stores the token, whether or not that issue then persists it
C8_RevokedTerminal ==
  \A p \in Procs :
    (Answered(p) /\ hist.seen[p].tok.revOK = "seen")
      => local[p].err = "Invalid token"

\* a validate answers NotFound a second time after a successful revoke, an
\* I/O failure having hit some operation, the other token being stored
C8_Witness ==
  \E p \in Procs :
    /\ Answered(p)
    /\ hist.seen[p].tok.revOK = "seen"
    /\ local[p].err = "Invalid token"
    /\ faults = 1
    /\ "t2" \in DOMAIN data.RefreshTokens

\* a CreateRefreshToken whose token the snapshot held, before or after the reload
TokenCollides(p) ==
  /\ At(p, "unlock", "CreateRefreshToken")
  /\ op[p].token \in DOMAIN cs.loaded.RefreshTokens

\* C9: issue with a token that is already in refreshTokens returns
\* AlreadyExists, leaves the entry's userID and expiresAt as they were and
\* the file unwritten; in every state the entry under key t has Token = t,
\* in the snapshot and in the file
C9_TokenCollisionRejected ==
  /\ \A p \in Procs :
       TokenCollides(p) =>
         LET t == op[p].token
         IN /\ local[p].err = ErrAlreadyExists
            /\ data.RefreshTokens[t] = cs.loaded.RefreshTokens[t]
            /\ t \in DOMAIN cs.data.RefreshTokens =>
                 data.RefreshTokens[t] = cs.data.RefreshTokens[t]
            /\ file = cs.file
  /\ \A p \in Procs :
       (At(p, "unlock", "CreateRefreshToken")
          /\ op[p].token \in DOMAIN cs.data.RefreshTokens) => TokenCollides(p)
  /\ \A t \in DOMAIN data.RefreshTokens : data.RefreshTokens[t].Token = t
  /\ \A t \in DOMAIN file.doc.refresh_tokens :
       DecodeRefreshToken(file.doc.refresh_tokens[t]).Token = t

\* an issue for user 2 with ttl 1 is rejected: the token is held for user 1
\* with expiry 0
C9_Witness ==
  \E p \in Procs :
    /\ TokenCollides(p)
    /\ local[p].err = ErrAlreadyExists
    /\ op[p].userID = 2
    /\ op[p].ttl = 1
    /\ data.RefreshTokens[op[p].token].UserID = 1
    /\ data.RefreshTokens[op[p].token].Expiration = 0
    /\ now = 1

\* a mutation other than a revoke of Tracked has written the file and is
\* returning success
Wrote(p) ==
  /\ pc[p] = "unlock"
  /\ local[p].err = Nil
  /\ op[p].name \in {"CreateRefreshToken", "DeleteRefreshToken"}
  /\ ~(op[p].name = "DeleteRefreshToken" /\ op[p].token = Tracked)

\* C10: a validate leaves refreshTokens as it is; once validate(t) has
\* returned Expired every later validate(t) returns Expired until a
\* revoke(t) is executed, and the file a later mutation writes still holds
\* the expired entry
C10_ValidateNeverDeletes ==
  /\ \A p \in Procs :
       (pc[p] = "runlock" /\ op[p].name = "GetRefreshToken" /\ local[p].err = Nil) =>
         /\ op[p].token \in DOMAIN data.RefreshTokens
         /\ data.RefreshTokens[op[p].token] = local[p].val
  /\ \A p \in Procs :
       (pc[p] = "runlock" /\ op[p].name = "GetRefreshToken"
          /\ op[p].token = Tracked /\ hist.tok.expired) =>
         /\ local[p].err = Nil
         /\ local[p].val.Expiration < now
  /\ \A p \in Procs :
       (Answered(p) /\ hist.seen[p].tok.expired)
         => local[p].err = "Expired token"
  /\ \A p \in Procs :
       (Wrote(p) /\ hist.tok.expired) =>
         /\ Tracked \in DOMAIN file.doc.refresh_tokens
         /\ DecodeRefreshToken(file.doc.refresh_tokens[Tracked]).Expiration < now

\* a validate answers Expired for the second time while an issue of the
\* other token has just written a file that holds the expired entry
C10_Witness ==
  \E p \in Procs, q \in Procs :
    /\ Answered(p)
    /\ hist.seen[p].tok.expired
    /\ local[p].err = "Expired token"
    /\ Wrote(q)
    /\ op[q].name = "CreateRefreshToken"
    /\ Tracked \in DOMAIN file.doc.refresh_tokens

\* a read method takes a step: RLock returns, it reads, or it returns
ReadStep(p) ==
  /\ pc'[p] # pc[p]
  /\ \/ pc'[p] = "read"
     \/ pc[p] \in {"read", "runlock"}

\* C11: every step of a read operation leaves the snapshot and the file as
\* they are and attempts no I/O, and what the operation returns is the
\* function ReadResult of the snapshot alone, whatever the file holds
C11_ReadsLeaveStateAlone ==
  [][\A p \in Procs :
       ReadStep(p) =>
         /\ data' = data
         /\ file' = file
         /\ faults' = faults
         /\ pc'[p] = "runlock" => local'[p] = ReadResult(op'[p], data)]_vars

\* a getPost returns a post, and a listUsers a user, after the file was removed
C11_Witness ==
  \E p \in Procs, q \in Procs :
    /\ At(p, "runlock", "GetChirp")
    /\ local[p].err = Nil
    /\ At(q, "runlock", "GetUsers")
    /\ Len(local[q].val) > 0
    /\ file.state = "missing"

\* the read operations in progress go on without waiting: the one that holds
\* the read lock can read, the one that has read can return
ReadersProceed ==
  \A p \in Goroutines :
    /\ At(p, "read", "GetChirps") => ENABLED GetChirps(p)
    /\ At(p, "read", "GetChirp") => ENABLED GetChirp(p)
    /\ pc[p] = "runlock" => ENABLED RUnlock(p)

\* a read operation arriving on goroutine p acquires the read lock at once
Admitted(p) == ENABLED RLock(p, "", "GetChirps")

\* C12 as stated: whenever read operations hold the lock, a newly arriving
\* read operation acquires the read lock and completes without waiting for
\* them, also when a mutating operation is waiting in Lock()
C12_AsStated ==
  /\ ReadersProceed
  /\ readers # {} =>
       \A p \in Goroutines : pc[p] = "idle" => Admitted(p)

\* C12 amended: whenever read operations hold the lock and no mutating
\* operation is waiting in Lock(), a newly arriving read operation acquires
\* the read lock and completes without waiting for them; while a mutating
\* operation is waiting in Lock(), an arriving read operation is not
\* admitted
C12_ReadersShareLock ==
  /\ ReadersProceed
  /\ (readers # {} /\ writer = 0) =>
       \A p \in Goroutines : pc[p] = "idle" => Admitted(p)
  /\ \A w \in Goroutines :
       pc[w] = "drain" =>
         \A p \in Goroutines : pc[p] = "idle" => ~Admitted(p)

\* a listPosts has acquired the read lock while two other read operations
\* held it, none of the three having returned yet
C12_Witness ==
  /\ Cardinality(readers) = 3
  /\ \E p \in Goroutines : At(p, "read", "GetChirps")
  /\ \E q \in Goroutines : pc[q] = "runlock"
  /\ writer = 0

\* the mutating method of p is returning success
Succeeded(p) ==
  /\ pc[p] = "unlock"
  /\ local[p].err = Nil
  /\ op[p].name \in {"CreateUser", "UpdateUser", "CreateChirp",
                      "CreateRefreshToken", "DeleteRefreshToken"}

\* the call o of the read method name with the arguments of the mutation o
Lookup(o, name) == [o EXCEPT !.name = name]

\* what a read operation started now returns shows the mutation p is
\* returning from
Reflected(p) ==
  LET o == op[p]
      v == local[p].val
  IN CASE o.name \in {"CreateUser", "UpdateUser"} ->
            /\ v.Email = o.email
            /\ ReadResult(Lookup(o, "GetAuthUserByEmail"), data) =
                 Ret(Nil, [ID |-> v.ID, Email |-> o.email, ChirpyRed |-> v.ChirpyRed,
                           Password |-> o.pwHash])
            /\ ReadResult(Lookup(o, "UserExists"), data) = Ret(Nil, TRUE)
            /\ \E i \in 1..Len(ReadResult(Lookup(o, "GetUsers"), data).val) :
                 ReadResult(Lookup(o, "GetUsers"), data).val[i] = v
       [] o.name = "CreateChirp" ->
            /\ v.Body = o.body
            /\ ReadResult([o EXCEPT !.name = "GetChirp", !.chirpID = v.ID], data) =
                 Ret(Nil, v)
            /\ \E i \in 1..Len(ReadResult(Lookup(o, "GetChirps"), data).val) :
                 ReadResult(Lookup(o, "GetChirps"), data).val[i] = v
       [] o.name = "CreateRefreshToken" ->
            /\ v.Token = o.token
            /\ ReadResult(Lookup(o, "GetRefreshToken"), data) = Ret(Nil, v)
       [] o.name = "DeleteRefreshToken" ->
            ReadResult(Lookup(o, "GetRefreshToken"), data) =
              Ret(ErrDoesNotExist, ZeroRefreshToken)

\* C13: when a mutating operation returns success the snapshot shows its
\* mutation to every read method; the snapshot then changes only in the
\* steps of a later mutating operation between its reload and its persist;
\* and a read operation returns what ReadResult gives on the snapshot at the
\* moment it reads, which is after every mutation that returned before it
\* started
C13_ReadYourWrites ==
  /\ [](\A p \in Procs : Succeeded(p) => Reflected(p))
  /\ [][/\ data' # data => \E p \in Procs : InSection(p) /\ pc'[p] # pc[p]
        /\ \A p \in Procs :
             (pc[p] = "read" /\ pc'[p] = "runlock")
               => local'[p] = ReadResult(op'[p], data')]_vars

\* an updateUser returns success for user 1, whose email it changed from
\* a@x.com to b@x.com, the store holding a post and a refresh token
C13_Witness ==
  \E p \in Procs :
    /\ Succeeded(p)
    /\ op[p].name = "UpdateUser"
    /\ op[p].userID = 1
    /\ op[p].email = "b@x.com"
    /\ cs.data.Users[1].Email = "a@x.com"
    /\ 1 \in DOMAIN data.Chirps
    /\ "t1" \in DOMAIN data.RefreshTokens

\* the persist step of p's mutating method fails
PersistFails(p) ==
  /\ pc[p] = "write"
  /\ pc'[p] = "unlock"
  /\ local'[p].err # Nil

\* C14: when the persist step of a mutating operation fails, the operation
\* returns the error and a zero-valued record, the file keeps its previous
\* content, and the snapshot keeps the mutation, which the read methods
\* return from then on
C14_PersistFailure ==
  [][\A p \in Procs :
       PersistFails(p) =>
         /\ local'[p] = Ret(ErrIO, ZeroOf(op[p].name))
         /\ file' = file
         /\ data' = data
         /\ op[p].name = "CreateChirp" =>
              /\ data'.Chirps[local[p].val.ID] = local[p].val
              /\ ReadResult([op[p] EXCEPT !.name = "GetChirp",
                                           !.chirpID = local[p].val.ID], data')
                   = Ret(Nil, local[p].val)]_vars

\* the reload step of p's mutating method fails: the file is missing or
\* cannot be decoded, or os.ReadFile fails
ReloadFails(p) ==
  /\ pc[p] = "load"
  /\ pc'[p] # "load"
  /\ file.state # "ok" \/ faults' # faults

\* os.WriteFile fails in the persist step of p's mutating method
WriteFails(p) ==
  /\ pc[p] = "write"
  /\ pc'[p] # "write"
  /\ faults' # faults

\* C15: a mutating operation whose reload fails returns that error without
\* changing the snapshot or the file; one whose persist fails returns that
\* error; and none returns success unless its reload read a decodable file
\* and its persist wrote the snapshot
C15_NoFailureSwallowed ==
  /\ [][\A p \in Procs :
          /\ ReloadFails(p) =>
               /\ pc'[p] = "unlock"
               /\ local'[p].err = ErrIO
               /\ data' = data
               /\ file' = file
          /\ WriteFails(p) =>
               /\ pc'[p] = "unlock"
               /\ local'[p].err = ErrIO]_vars
  /\ [](\A p \in Procs :
          (pc[p] = "unlock" /\ local[p].err = Nil) =>
            /\ cs.file.state = "ok"
            /\ file = FileOf(data))

\* what the queries return on snapshot d, and its two counters
Observed(d) ==
  [listPosts |-> ReadResult([NoOp EXCEPT !.name = "GetChirps"], d),
   listUsers |-> ReadResult([NoOp EXCEPT !.name = "GetUsers"], d),
   getUserByEmail |->
     [e \in Emails |-> ReadResult([NoOp EXCEPT !.name = "GetAuthUserByEmail", !.email = e], d)],
   GetRefreshToken |->
     [t \in Tokens |-> ReadResult([NoOp EXCEPT !.name = "GetRefreshToken", !.token = t], d)],
   lastPostID |-> d.LastChirpID,
   lastUserID |-> d.LastUserID]

\* this step is a call of NewDB
Constructed == hist'.boot.n # hist.boot.n

\* NewDB has returned a store
Up == \A p \in Procs : pc[p] = "idle"

\* NewDB has returned an error and no store
Down == \A p \in Procs : pc[p] = "down"

C17_MissingFile ==
  [][(Constructed /\ file.state = "missing") =>
       /\ faults' = faults => hist'.boot.err = Nil
       /\ hist'.boot.err = Nil =>
            /\ Up'
            /\ data' = EmptyData
            /\ file' = FileOf(EmptyData)
       /\ hist'.boot.err # Nil =>
            /\ Down'
            /\ faults' # faults]_vars

\* the first NewDB(path, false) of a process that never ran has returned a
\* store: empty snapshot, file created
C17_Witness ==
  /\ hist.boot = [n |-> 1, truncate |-> FALSE, err |-> Nil, data |-> EmptyData]
  /\ Up
  /\ data = EmptyData
  /\ file = FileOf(EmptyData)
  /\ faults = 0

\* C18 as stated: NewDB on a path whose file cannot be decoded returns an
\* error and no store and leaves the file as it is
C18_AsStated ==
  [][(Constructed /\ file.state = "truncated") =>
       /\ hist'.boot.err # Nil
       /\ Down'
       /\ file' = file]_vars

\* C18 amended: NewDB(path, false) on a path whose file cannot be decoded
\* returns an error and no store and leaves the file as it is;
\* NewDB(path, true) removes the file and returns a store with the empty
\* snapshot and a new file, unless the removal or the writing fails
C18_MalformedFile ==
  [][(Constructed /\ file.state = "truncated") =>
       /\ ~hist'.boot.truncate =>
            /\ hist'.boot.err # Nil
            /\ Down'
            /\ file' = file
       /\ hist'.boot.truncate =>
            \/ /\ hist'.boot.err = Nil
               /\ Up'
               /\ data' = EmptyData
               /\ file' = FileOf(EmptyData)
            \/ /\ hist'.boot.err # Nil
               /\ Down'
               /\ faults' # faults]_vars

\* the second NewDB(path, false) has failed on the file a failed write of
\* the first store cut short, after that store had created a user
C18_Witness ==
  /\ hist.boot.n = 2
  /\ ~hist.boot.truncate
  /\ hist.boot.err = ErrIO
  /\ Down
  /\ file = Truncated
  /\ hist.userIDs = <<1>>

\* C19: NewDB(path, true) that returns a store returns one with the empty
\* snapshot, the file holding the empty snapshot, whatever the file held
\* before; NewDB(path, false) that returns a store on a path with a valid
\* file returns one holding exactly the file's snapshot
C19_StartFresh ==
  [][Constructed =>
       /\ (hist'.boot.truncate /\ hist'.boot.err = Nil) =>
            /\ data' = EmptyData
            /\ file' = FileOf(EmptyData)
       /\ (~hist'.boot.truncate /\ file.state = "ok" /\ hist'.boot.err = Nil) =>
            /\ FileOf(data') = file
            /\ file' = file]_vars

\* s holds every value of map m exactly once, in strictly ascending order of ID
Listed(s, m) ==
  /\ Len(s) = Cardinality(DOMAIN m)
  /\ \A k \in DOMAIN m : Cardinality({i \in 1..Len(s) : s[i] = m[k]}) = 1
  /\ \A i \in 1..Len(s) : \E k \in DOMAIN m : s[i] = m[k]
  /\ \A i \in 1..(Len(s) - 1) : s[i].ID < s[i + 1].ID

\* goroutine p computes the result of list method name in this step
Lists(p, name) == At(p, "read", name) /\ pc'[p] = "runlock"

\* C20: listPosts returns every post of the snapshot exactly once in strictly
\* ascending order of ID, and listUsers every user likewise; the result is
\* the same for every order in which the map can be iterated, whatever the
\* bodies and emails are
C20_ListsAscending ==
  /\ [](/\ \A c1 \in Orders(data.Chirps), c2 \in Orders(data.Chirps) :
               SortByID(c1) = SortByID(c2)
         /\ \A u1 \in Orders(UsersOf(data)), u2 \in Orders(UsersOf(data)) :
               SortByID(u1) = SortByID(u2))
  /\ [][\A p \in Procs :
          /\ Lists(p, "GetChirps") =>
               /\ local'[p].err = Nil
               /\ Listed(local'[p].val, data.Chirps)
          /\ Lists(p, "GetUsers") =>
               /\ local'[p].err = Nil
               /\ Listed(local'[p].val, UsersOf(data))]_vars

\* listPosts has returned the posts with bodies "c", "a" as IDs 1, 2 while
\* listUsers has returned the users with emails b, a as IDs 1, 2
C20_Witness ==
  \E p \in Procs, q \in Procs :
    /\ At(p, "runlock", "GetChirps")
    /\ Len(local[p].val) = 2
    /\ <<local[p].val[1].ID, local[p].val[2].ID>> = <<1, 2>>
    /\ <<local[p].val[1].Body, local[p].val[2].Body>> = <<"c", "a">>
    /\ At(q, "runlock", "GetUsers")
    /\ Len(local[q].val) = 2
    /\ <<local[q].val[1].ID, local[q].val[2].ID>> = <<1, 2>>
    /\ <<local[q].val[1].Email, local[q].val[2].Email>> = <<"b@x.com", "a@x.com">>

\* DeleteRefreshToken of goroutine p is about to return success
Revoked(p) == At(p, "unlock", "DeleteRefreshToken") /\ local[p].err = Nil

\* snapshots d and e agree on everything but the entry of token t
SameBut(d, e, t) ==
  /\ Delete(d.RefreshTokens, t) = Delete(e.RefreshTokens, t)
  /\ d.Users = e.Users
  /\ d.Chirps = e.Chirps
  /\ d.UserEmailIndex = e.UserEmailIndex
  /\ d.LastUserID = e.LastUserID
  /\ d.LastChirpID = e.LastChirpID

\* C21 as stated: a revoke returns success whether or not the token is
\* present, and leaves every other token, the users, posts, index entries
\* and both counters as they were before the call
C21_AsStated ==
  \A p \in Procs :
    Revoked(p) =>
      /\ op[p].token \notin DOMAIN data.RefreshTokens
      /\ SameBut(data, cs.data, op[p].token)

\* C21 amended: DeleteRefreshToken never answers does-not-exist: once its
\* reload succeeded it removes the token, present or not, and fails only if
\* the write fails.  When it returns success the token is absent, the file
\* holds the snapshot, and everything but the token's entry is as the
\* reload produced it; it is as before the call whenever the snapshot
\* mirrored the file then, so that a revoke of an absent token, and the
\* second of two revokes, changes nothing
C21_RevokeIdempotent ==
  /\ [](\A p \in Procs :
          /\ op[p].name = "DeleteRefreshToken" => local[p].err # ErrDoesNotExist
          /\ Revoked(p) =>
               /\ op[p].token \notin DOMAIN data.RefreshTokens
               /\ file = FileOf(data)
               /\ SameBut(data, cs.loaded, op[p].token)
               /\ cs.file = FileOf(cs.data) =>
                    /\ SameBut(data, cs.data, op[p].token)
                    /\ op[p].token \notin DOMAIN cs.data.RefreshTokens => data = cs.data)
  /\ [][\A p \in Procs :
          (At(p, "apply", "DeleteRefreshToken") /\ pc'[p] # "apply") =>
             /\ pc'[p] = "write"
             /\ local'[p] = Ret(Nil, Nil)
             /\ data' = [data EXCEPT !.RefreshTokens = Delete(@, op'[p].token)]]_vars

\* the second of two revokes of the same token returns success beside a
\* user, a post and the other token, which it leaves alone
C21_Witness ==
  \E p \in Procs :
    /\ Revoked(p)
    /\ op[p].token = Tracked
    /\ hist.tok.last = "revoked"
    /\ Tracked \notin DOMAIN cs.data.RefreshTokens
    /\ DOMAIN data.RefreshTokens = {"t2"}
    /\ DOMAIN data.Users = {1}
    /\ DOMAIN data.Chirps = {1}
    /\ data = cs.data
    /\ faults = 0

\* DeleteChirp of goroutine p is about to return
Deleting(p) == At(p, "unlock", "DeleteChirp")

\* ids is strictly increasing
Increasing(ids) == \A i \in 1..Len(ids), j \in 1..Len(ids) : i < j => ids[i] < ids[j]

\* C22 as stated: deletePost of a post that was in the snapshot at the call
\* returns success having removed exactly that post, deletePost of an
\* absent id returns NotFound having changed nothing, and neither lowers
\* lastPostID
C22_AsStated ==
  \A p \in Procs :
    (Deleting(p) /\ local[p].err # ErrIO) =>
      /\ local[p].err = Nil <=> op[p].chirpID \in DOMAIN cs.data.Chirps
      /\ local[p].err = Nil => data = [cs.data EXCEPT !.Chirps = Delete(@, op[p].chirpID)]
      /\ local[p].err = ErrDoesNotExist => data = cs.data /\ file = cs.file
      /\ data.LastChirpID >= cs.data.LastChirpID

\* C22 amended: deletePost judges existence on the snapshot its reload
\* produced: a post in it is removed, exactly that post, the file then
\* holds the snapshot and getPost(id) is NotFound; an id not in it gets
\* NotFound, nothing changed and nothing written.  lastPostID is left as
\* reloaded, which is the value before the call whenever the snapshot
\* mirrored the file then, and the IDs successful createPost calls return
\* keep increasing across deletions
C22_DeletePost ==
  /\ Increasing(hist.chirpIDs)
  /\ \A p \in Procs :
       (Deleting(p) /\ local[p].err # ErrIO) =>
         /\ local[p].err = Nil <=> op[p].chirpID \in DOMAIN cs.loaded.Chirps
         /\ local[p].err = Nil =>
              /\ data = [cs.loaded EXCEPT !.Chirps = Delete(@, op[p].chirpID)]
              /\ file = FileOf(data)
              /\ ReadResult([NoOp EXCEPT !.name = "GetChirp", !.chirpID = op[p].chirpID],
                            data) = Ret(ErrDoesNotExist, ZeroChirp)
         /\ local[p].err = ErrDoesNotExist => data = cs.loaded /\ file = cs.file
         /\ data.LastChirpID = cs.file.doc.last_chirp_id
         /\ cs.file = FileOf(cs.data) =>
              /\ local[p].err = Nil <=> op[p].chirpID \in DOMAIN cs.data.Chirps
              /\ Delete(data.Chirps, op[p].chirpID) = Delete(cs.data.Chirps, op[p].chirpID)
              /\ data.LastChirpID = cs.data.LastChirpID

\* post 1, the one with the highest ID, was deleted and the next createPost
\* returned ID 2
C22_Witness ==
  /\ hist.chirpIDs = <<1, 2>>
  /\ DOMAIN data.Chirps = {2}
  /\ file = FileOf(data)
  /\ faults = 0

\* UpdateUser of goroutine p is about to return
Updating(p) == At(p, "unlock", "UpdateUser")

\* what a successful UpdateUser of user id to email and pwHash makes of
\* snapshot d
Updated(d, id, email, pwHash) ==
  [d EXCEPT !.Users[id] = [@ EXCEPT !.Email = email, !.Password = pwHash],
            !.UserEmailIndex = Put(Delete(@, d.Users[id].Email), email, id)]

\* C23 as stated: a successful updateUser leaves of the snapshot before the
\* call everything but the user's email and digest and the index entries
\* under the old and the new email, and updateUser of an absent id returns
\* NotFound and leaves the snapshot and the file as they were
C23_AsStated ==
  \A p \in Procs :
    (Updating(p) /\ local[p].err # ErrIO) =>
      /\ local[p].err = Nil <=> op[p].userID \in DOMAIN cs.data.Users
      /\ local[p].err = Nil =>
           data = Updated(cs.data, op[p].userID, op[p].email, op[p].pwHash)
      /\ local[p].err = ErrDoesNotExist => data = cs.data /\ file = cs.file

\* C23 amended: the same relative to the snapshot the reload of updateUser
\* produced, and relative to the snapshot before the call whenever that one
\* mirrored the file: id and upgraded flag of the user, both counters, all
\* other users, the index entries under other emails, the posts and the
\* refresh tokens are kept, and the file holds the result
C23_UpdateUserFrame ==
  \A p \in Procs :
    (Updating(p) /\ local[p].err # ErrIO) =>
      LET id == op[p].userID
      IN /\ local[p].err = Nil <=> id \in DOMAIN cs.loaded.Users
         /\ local[p].err = Nil =>
              /\ data = Updated(cs.loaded, id, op[p].email, op[p].pwHash)
              /\ data.Users[id].ID = cs.loaded.Users[id].ID
              /\ data.Users[id].ChirpyRed = cs.loaded.Users[id].ChirpyRed
              /\ \A u \in DOMAIN cs.loaded.Users \ {id} : data.Users[u] = cs.loaded.Users[u]
              /\ \A e \in Emails \ {op[p].email, cs.loaded.Users[id].Email} :
                   /\ e \in DOMAIN data.UserEmailIndex <=> e \in DOMAIN cs.loaded.UserEmailIndex
                   /\ e \in DOMAIN data.UserEmailIndex =>
                        data.UserEmailIndex[e] = cs.loaded.UserEmailIndex[e]
              /\ data.LastUserID = cs.loaded.LastUserID
              /\ data.LastChirpID = cs.loaded.LastChirpID
              /\ data.Chirps = cs.loaded.Chirps
              /\ data.RefreshTokens = cs.loaded.RefreshTokens
              /\ file = FileOf(data)
              /\ local[p].val = UserOf(data.Users[id])
         /\ local[p].err = ErrDoesNotExist => data = cs.loaded /\ file = cs.file
         /\ cs.file = FileOf(cs.data) =>
              /\ local[p].err = Nil =>
                   data = Updated(cs.data, id, op[p].email, op[p].pwHash)
              /\ local[p].err = ErrDoesNotExist => data = cs.data

\* an upgraded user 1 was given another email and digest beside user 2, the
\* chirp and the token
C23_Witness ==
  \E p \in Procs :
    /\ Updating(p)
    /\ local[p].err = Nil
    /\ op[p].userID = 1
    /\ cs.data.Users[1] =
         [ID |-> 1, Email |-> "a@x.com", ChirpyRed |-> TRUE, Password |-> "d1"]
    /\ data.Users[1] =
         [ID |-> 1, Email |-> "b@x.com", ChirpyRed |-> TRUE, Password |-> "d2"]
    /\ DOMAIN data.Users = {1, 2}
    /\ data.Users[2] = cs.data.Users[2]
    /\ DOMAIN data.Chirps = {1}
    /\ DOMAIN data.RefreshTokens = {"t2"}
    /\ faults = 0

\* UpgradeUser of goroutine p is about to return
Upgrading(p) == At(p, "unlock", "UpgradeUser")

\* user id of snapshot d is upgraded
Upgraded(d, id) == id \in DOMAIN d.Users /\ d.Users[id].ChirpyRed

\* the file holds user id as upgraded
Persisted(f, id) == f.state = "ok" /\ Upgraded(Decode(f.doc, EmptyData), id)

\* a successful CreateUser has returned id
Returned(ids, id) == \E i \in 1..Len(ids) : ids[i] = id

\* C24 as stated: upgradeUser of a user in the snapshot sets the flag and
\* changes nothing else, upgradeUser of an absent id returns NotFound and
\* changes nothing, and no step ever takes the flag from a user
C24_AsStated ==
  /\ [](\A p \in Procs :
          (Upgrading(p) /\ local[p].err # ErrIO) =>
            /\ local[p].err = Nil <=> op[p].userID \in DOMAIN cs.data.Users
            /\ local[p].err = Nil =>
                 data = [cs.data EXCEPT !.Users[op[p].userID].ChirpyRed = TRUE]
            /\ local[p].err = ErrDoesNotExist => data = cs.data)
  /\ [][\A id \in UserIDs : Upgraded(data, id) => Upgraded(data', id)]_vars

\* C24 amended: upgradeUser acts on the snapshot its reload produced: for a
\* user in it the flag is set, nothing else changes and the file holds the
\* result; for an absent id it returns NotFound and writes nothing.  On a
\* snapshot that mirrored the file the result is the snapshot before the
\* call with the flag set, hence that snapshot itself for a user already
\* upgraded.  The flag of a user whose createUser returned success, once
\* set in memory and in the file, is never taken away in either
C24_UpgradeUser ==
  /\ [](\A p \in Procs :
          (Upgrading(p) /\ local[p].err # ErrIO) =>
            LET id == op[p].userID
            IN /\ local[p].err = Nil <=> id \in DOMAIN cs.loaded.Users
               /\ local[p].err = Nil =>
                    /\ data = [cs.loaded EXCEPT !.Users[id].ChirpyRed = TRUE]
                    /\ file = FileOf(data)
               /\ local[p].err = ErrDoesNotExist => data = cs.loaded /\ file = cs.file
               /\ cs.file = FileOf(cs.data) =>
                    /\ local[p].err = Nil =>
                         /\ data = [cs.data EXCEPT !.Users[id].ChirpyRed = TRUE]
                         /\ Upgraded(cs.data, id) => data = cs.data
                    /\ local[p].err = ErrDoesNotExist => data = cs.data)
  /\ [][\A id \in UserIDs :
          (Upgraded(data, id) /\ Persisted(file, id) /\ Returned(hist.userIDs, id)) =>
             /\ Upgraded(data', id)
             /\ file'.state = "ok" => Persisted(file', id)]_vars

\* upgradeUser of user 1, already upgraded, returns success beside user 2,
\* who is not, and leaves the snapshot as it was
C24_Witness ==
  \E p \in Procs :
    /\ Upgrading(p)
    /\ local[p].err = Nil
    /\ op[p].userID = 1
    /\ Upgraded(cs.data, 1)
    /\ data = cs.data
    /\ file = FileOf(data)
    /\ DOMAIN data.Users = {1, 2}
    /\ ~data.Users[2].ChirpyRed
    /\ faults = 0

\* every refresh token of snapshot d belongs to a user of d
Owned(d) ==
  \A t \in DOMAIN d.RefreshTokens : d.RefreshTokens[t].UserID \in DOMAIN d.Users

\* C25: in every state every refresh token in memory has a userID that is
\* a key of users, and so has every refresh token in the file; the login
\* flow calls CreateRefreshToken only with the ID of the user it found
C25_TokensOwned ==
  /\ Owned(data)
  /\ file.state = "ok" => Owned(Decode(file.doc, EmptyData))
  /\ \A p \in Procs :
       (op[p].name = "CreateRefreshToken" /\ op[p].handler = "loginHandler") =>
          op[p].userID \in DOMAIN data.Users

\* a token of user 2 is stored and persisted after a login, beside user 1
C25_Witness ==
  /\ Tracked \in DOMAIN data.RefreshTokens
  /\ data.RefreshTokens[Tracked].UserID = 2
  /\ DOMAIN data.Users = {1, 2}
  /\ file = FileOf(data)
  /\ hist.tok.last = "issued"

\* C26: a mutating operation leaves every post that was in the snapshot
\* when it took the lock, and is in the snapshot when it returns, with the
\* body and the author it had: an ID readers could see is never bound to
\* another post
C26_PostsImmutable ==
  \A p \in Procs :
    pc[p] = "unlock" =>
      \A id \in (DOMAIN cs.data.Chirps) \cap (DOMAIN data.Chirps) :
        data.Chirps[id] = cs.data.Chirps[id]

\* C27: right after the reload of a mutating operation the snapshot in
\* memory is the file's, decoded: both counters and the four maps, with no
\* entry the file does not have
C27_ReloadReconciles ==
  \A p \in Procs :
    pc[p] = "apply" => data = Decode(file.doc, EmptyData)

\* the snapshot in memory is what the file decodes to
Mirror == file.state = "ok" /\ data = Decode(file.doc, EmptyData)

\* C28: whenever no mutating operation holds the write lock and no writeDB
\* has failed since the last one that succeeded, the snapshot in memory
\* equals the snapshot decoded from the file; and a mutating operation that
\* returns success has made them equal before it releases the lock
C28_Mirror ==
  /\ (writer = 0 /\ ~hist.dirty) => Mirror
  /\ \A p \in Procs : (pc[p] = "unlock" /\ local[p].err = Nil) => Mirror

\* after a failed writeDB had left a user in memory only, a createPost has
\* succeeded and released the lock: the file holds the user and the post
C28_Witness ==
  /\ writer = 0
  /\ ~hist.dirty
  /\ faults = 1
  /\ DOMAIN data.Users = {1}
  /\ hist.userIDs = <<>>
  /\ hist.chirpIDs = <<1>>
  /\ Mirror

\* the user records that carry email
Holders(email) == {id \in DOMAIN data.Users : data.Users[id].Email = email}

\* every create-user request so far carried email, and the store was new
Only(email) == hist.signup.emails = {email}

\* no request is under way
Quiet == \A p \in Procs : pc[p] = "idle"

Removing(p) ==
  /\ At(p, "apply", "DeleteChirp")
  /\ op[p].handler = "deleteChirpHandler"
  /\ op[p].chirpID \in DOMAIN data.Chirps

\* C30: the delete handler removes a post only if the authenticated user of
\* the request is the post's author, under every interleaving of create and
\* delete requests; and for an absent post it never calls deletePost
C30_DeleteAuthorized ==
  \A p \in Procs :
    /\ Removing(p) => data.Chirps[op[p].chirpID].AuthorID = op[p].userID
    /\ (op[p].handler = "deleteChirpHandler" /\ pc[p] = "drain") =>
         local[p].err = Nil

\* goroutine p holds the write lock, or has announced itself as the writer
HoldsWrite(p) == writer = p

HoldsRead(p) == p \in readers

\* the positions of a method between its Lock() and its deferred Unlock(),
\* and between its RLock() and its deferred RUnlock()
InWrite == Section \cup {"drain", "unlock"}

InRead == {"read", "runlock"}

\* a method holds the lock from its one acquisition to its return, in the
\* mode it asked for, and a goroutine takes the lock only when it holds none
OnceHeld ==
  \A p \in Procs :
    /\ HoldsWrite(p) <=> pc[p] \in InWrite
    /\ HoldsRead(p) <=> pc[p] \in InRead
    /\ pc[p] \in InWrite => op[p].name \in Mutating
    /\ pc[p] \in InRead => op[p].name \notin Mutating

\* C31: every store operation takes the store lock once, never while it
\* holds it, and has released it when it returns, whatever it returns; and
\* with terminating file I/O and a fair lock every operation that was called
\* returns
C31_Terminates ==
  /\ []OnceHeld
  /\ [][\A p \in Procs :
          /\ (HoldsWrite(p)' /\ ~HoldsWrite(p)) =>
               pc[p] \in {"idle", "call"} /\ ~HoldsRead(p)
          /\ (HoldsRead(p)' /\ ~HoldsRead(p)) =>
               pc[p] \in {"idle", "call"} /\ ~HoldsWrite(p)]_vars
  /\ \A p \in Procs : (pc[p] # "idle") ~> (pc[p] = "idle")

\* a goroutine waits at the lock while a CreateRefreshToken whose writeDB
\* failed is about to run its deferred Unlock
C31_Witness ==
  /\ pc[1] = "call"
  /\ pc[2] = "unlock"
  /\ op[2].name = "CreateRefreshToken"
  /\ local[2].err = ErrIO
  /\ "t1" \in DOMAIN data.RefreshTokens

\* the keys of map m are within 1..last and each record is stored under
\* its own ID
Keyed(m, last) == \A i \in DOMAIN m : i \in 1..last /\ m[i].ID = i

\* C32: in every state every key of posts is in 1..lastPostID and every key
\* of users is in 1..lastUserID, the record under key i has id i, and the two
\* counters never decrease, also over operations whose persist step fails
C32_CountersConsistent ==
  /\ [](Keyed(data.Chirps, data.LastChirpID) /\ Keyed(data.Users, data.LastUserID))
  /\ [][/\ data'.LastChirpID >= data.LastChirpID
        /\ data'.LastUserID >= data.LastUserID]_vars

\* createChirpHandler of p has called CreateChirp, which has not yet stored
\* the post: local holds cr.Body and op the body passed to CreateChirp
Storing(p) ==
  /\ op[p].handler = "createChirpHandler"
  /\ pc[p] \in {"drain", "load", "apply"}

\* C33: every post stored through the create-post handler has a non-empty
\* body of at most 140 bytes, and the word filter applied after the length
\* check never lengthens the body and keeps the number of space-separated
\* words, masking exactly the words equal, ignoring case, to a bad word
C33_BodyBounded ==
  /\ \A i \in DOMAIN data.Chirps :
       data.Chirps[i].Body # <<>> /\ Len(data.Chirps[i].Body) <= 140
  /\ \A p \in Procs :
       Storing(p) =>
         LET body == local[p].val
             clean == op[p].body
         IN /\ body # <<>> /\ Len(body) <= 140
            /\ Len(clean) <= Len(body)
            /\ Len(Split(clean)) = Len(Split(body))
            /\ \A k \in DOMAIN Split(body) :
                 Split(clean)[k] =
                   IF ToLower(Split(body)[k]) \in badWords
                   THEN Repeat("*", 4) ELSE Split(body)[k]

\* the stored post is a body of exactly 140 bytes whose first word was masked
C33_Witness ==
  /\ 1 \in DOMAIN data.Chirps
  /\ data.Chirps[1].Body = Repeat("*", 4) \o <<" ">> \o Repeat("x", 130)
  /\ \E p \in Procs : pc[p] = "write" /\ op[p].handler = "createChirpHandler"

\* C35: under any interleaving of /app requests, metrics reads and resets,
\* fileserverHits equals the number of /app requests whose increment happened
\* after the most recent reset; a reset sets it to 0; and a metrics read
\* reports a value the counter actually held
C35_HitCounter ==
  /\ [](/\ metrics.fileserverHits = metrics.counted
        /\ \A p \in Procs :
             pc[p] = "reported" => local[p].val \in metrics.held)
  /\ [][\A p \in Procs :
          (pc[p] # "zeroed" /\ pc'[p] = "zeroed") => metrics'.fileserverHits = 0]_vars

\* expiresAt - issuedAt of the claims, in seconds
Lifetime(claims) == Sub64(claims.ExpiresAt, claims.IssuedAt)

====
